---------------------------- MODULE Spec2Model ----------------------------
(***************************************************************************)
(* Amodely: the anomaly detection model (src/src/amodely.py) and the data  *)
(* pipelines it runs (src/src/lib/pipelines.py).                            *)
(*                                                                         *)
(* Dataframes are objects on a heap; the model holds references to them,   *)
(* so that a copy and an alias are different things.  A table is a column  *)
(* list, the set of its object-dtype columns and a sequence of rows; a row *)
(* carries its index label idx, the number n of identical consecutive raw  *)
(* rows it stands for, and its cells c (column name -> value).  Strings    *)
(* whose characters the code looks at (category names) are sequences of    *)
(* one-character strings.                                                  *)
(***************************************************************************)
EXTENDS Integers, Sequences, FiniteSets, TLC

VARIABLES
    input,       \* the caller's dataframe (reference), the `df` given to __init__
    main_df,     \* Amodely._main_df (reference; NoRef before construction)
    df,          \* Amodely._df, the working dataframe (reference)
    heap,        \* object id -> table
    measure,     \* Amodely._measure
    dimension,   \* Amodely._dimension
    anomalies_,  \* Amodely.anomalies_ (a table value)
    last,        \* the last call made and how it ended
    pc,          \* dashboard: the statement each running callback is at
    locals       \* dashboard: the callbacks' arguments, and the loop index
                 \* and the list `anomalies` of the running detect_anomalies

vars == <<input, main_df, df, heap, measure, dimension, anomalies_, last, pc,
          locals>>

-----------------------------------------------------------------------------
(* Bounds of the model *)

\* number of weeks the generated input data spans
Weeks == 6

(* Program constants *)

\* lib.py: name of the date column
DATE == "QUOTE_DATE"

\* lib.py: measure -> columns aggregated (all with "sum")
STRUCTURE ==
    [QUOTE_VOLUME     |-> <<"QUOTE_COUNT">>,
     SALES_VOLUME     |-> <<"SALES_COUNT">>,
     QUOTE_PROPORTION |-> <<"QUOTE_COUNT">>,
     SALES_PROPORTION |-> <<"SALES_COUNT">>,
     CONVERSION_RATE  |-> <<"QUOTE_COUNT", "SALES_COUNT">>]

None == "None"
NoRef == 0
Ids == 1..5
NaN == -1

-----------------------------------------------------------------------------
(* Strings *)

\* the characters used, in code point order
Alphabet ==
    <<" ", "(", ")", "-", "A", "C", "E", "H", "I", "M", "N", "O", "R", "S", "U", "V", "W",
      "a", "e", "k", "l", "n", "o", "s", "u", "v", "w">>

Ord(ch) == CHOOSE i \in 1..Len(Alphabet) : Alphabet[i] = ch

\* Python's str comparison s < t
RECURSIVE StrLess(_, _)
StrLess(s, t) ==
    IF t = <<>> THEN FALSE
    ELSE IF s = <<>> THEN TRUE
    ELSE IF Head(s) = Head(t) THEN StrLess(Tail(s), Tail(t))
    ELSE Ord(Head(s)) < Ord(Head(t))

\* category and cell strings of the input data
NSW       == <<"N", "S", "W">>
NSW_N     == <<"N", "S", "W", "-", "N">>
VIC       == <<"V", "I", "C">>
SA_M      == <<"S", "A", "(", "M", ")">>
UNKNOWN   == <<"U", "n", "k", "n", "o", "w", "n">>
CAR       == <<"C", "A", "R">>
HOME      == <<"H", "O", "M", "E">>
NEW_VALUES == <<"n", "e", "w", " ", "v", "a", "l", "u", "e", "s">>

\* str.upper() on the names the calls are made with
Upper(name) ==
    CASE name = "state"   -> "STATE"
      [] name = "product" -> "PRODUCT"
      [] name = "all"     -> "ALL"
      [] name = "new_col" -> "NEW_COL"
      [] OTHER            -> name

-----------------------------------------------------------------------------
(* Tables *)

Row(i, k, cells) == [idx |-> i, n |-> k, c |-> cells]
Table(cols, obj, rows) == [cols |-> cols, obj |-> obj, rows |-> rows]

\* pd.DataFrame()
EmptyFrame == Table(<<>>, {}, <<>>)

Range(s) == {s[i] : i \in 1..Len(s)}

MapSeq(s, F(_)) == [i \in 1..Len(s) |-> F(s[i])]

RECURSIVE SelectRows(_, _)
SelectRows(s, keep) ==
    IF s = <<>> THEN <<>>
    ELSE IF Head(s) \in keep THEN <<Head(s)>> \o SelectRows(Tail(s), keep)
    ELSE SelectRows(Tail(s), keep)

\* DataFrame[name] = value: a new column at the end, or the column overwritten
SetColumn(X, name, isObj, value) ==
    Table(IF name \in Range(X.cols) THEN X.cols ELSE Append(X.cols, name),
          IF isObj THEN X.obj \cup {name} ELSE X.obj \ {name},
          [i \in 1..Len(X.rows) |->
              [X.rows[i] EXCEPT !.c =
                  [col \in Range(X.cols) \cup {name} |->
                      IF col = name THEN value ELSE X.rows[i].c[col]]]])

\* DataFrame.fillna(value); in this model only numeric cells can be missing.
\* The cells of a measure column are floats num / den, NaN being 0 / 0.
fillna(X, value) ==
    Table(X.cols, X.obj,
          [i \in 1..Len(X.rows) |->
              [X.rows[i] EXCEPT !.c =
                  [col \in Range(X.cols) |->
                      IF col \in DOMAIN STRUCTURE
                      THEN (IF X.rows[i].c[col] = <<0, 0>> THEN <<value, 1>>
                            ELSE X.rows[i].c[col])
                      ELSE IF col \notin X.obj /\ col # DATE /\ X.rows[i].c[col] = NaN
                      THEN value ELSE X.rows[i].c[col]]]])

\* FillNA(value).fit_transform(X)
FillNA(value, X) == fillna(X, value)

\* number of raw rows of a table
NRows(X) ==
    LET RECURSIVE Sum(_)
        Sum(s) == IF s = <<>> THEN 0 ELSE Head(s).n + Sum(Tail(s))
    IN Sum(X.rows)

-----------------------------------------------------------------------------
(* Input data: daily rows, not sorted by date, one block of rows per        *)
(* (category, week).  Block b: state, product, first week w0, number of     *)
(* weeks nw, raw rows per week n, and the counts of each row.               *)

RawCols == <<DATE, "STATE", "PRODUCT", "QUOTE_COUNT", "SALES_COUNT">>
RawObj  == {"STATE", "PRODUCT"}

Block(state, product, w0, nw, n, q, s) ==
    [state |-> state, product |-> product, w0 |-> w0, nw |-> nw, n |-> n,
     q |-> q, s |-> s]

BlockRows(b) ==
    [k \in 1..b.nw |->
        [n |-> b.n,
         c |-> [col \in Range(RawCols) |->
                  CASE col = DATE          -> 7 * (b.w0 + k - 1) + ((b.w0 + k) % 3)
                    [] col = "STATE"       -> b.state
                    [] col = "PRODUCT"     -> b.product
                    [] col = "QUOTE_COUNT" -> b.q
                    [] col = "SALES_COUNT" -> IF b.s = NaN THEN NaN
                                              ELSE b.s + (k % 2)]]]

RECURSIVE ConcatBlocks(_)
ConcatBlocks(bs) ==
    IF bs = <<>> THEN <<>> ELSE BlockRows(Head(bs)) \o ConcatBlocks(Tail(bs))

\* RangeIndex 0..k-1
RangeIndex(rows) == [i \in 1..Len(rows) |-> Row(i - 1, rows[i].n, rows[i].c)]

RawTable(bs) == Table(RawCols, RawObj, RangeIndex(ConcatBlocks(bs)))

\* two categories with enough rows each, the name of one a part of the
\* name of the other
Data1 ==
    RawTable(<<Block(NSW, CAR, 0, Weeks, 25, 4, 1),
               Block(NSW_N, HOME, 1, Weeks - 1, 30, 3, 0)>>)

\* two categories below the floor of 100 rows, one of them with parentheses
\* in its name, an "Unknown" category and missing counts
Data2 ==
    RawTable(<<Block(VIC, CAR, 0, 2, 10, 2, 1),
               Block(NSW, HOME, 0, Weeks, 25, NaN, NaN),
               Block(UNKNOWN, CAR, 1, 1, 120, 5, 1),
               Block(NSW, CAR, 1, 1, 1, 6, 2),
               Block(SA_M, HOME, 0, 2, 15, 4, 1)>>)

InputTables == {Data1, Data2}

-----------------------------------------------------------------------------
(* pipelines.py: the transformers.  A transformer gives [ok, X]; ok = FALSE *)
(* is an exception raised by pandas.                                        *)

Ok(X)  == [ok |-> TRUE, X |-> X]
Raised == [ok |-> FALSE, X |-> EmptyFrame]

ALL == <<"A", "L", "L">>

\* the value a row is grouped or sorted by in column dim ("ALL": no column)
DimOf(r, dim) == IF dim = "ALL" THEN <<>> ELSE r.c[dim]

\* row order of sort_values([DATE, dim]) / sort_values(DATE)
RowLess(a, b, dim) ==
    \/ a.c[DATE] < b.c[DATE]
    \/ a.c[DATE] = b.c[DATE] /\ StrLess(DimOf(a, dim), DimOf(b, dim))

RECURSIVE InsertRow(_, _, _)
InsertRow(x, s, dim) ==
    IF s = <<>> THEN <<x>>
    ELSE IF RowLess(x, Head(s), dim) THEN <<x>> \o s
    ELSE <<Head(s)>> \o InsertRow(x, Tail(s), dim)

\* a stable sort of the rows by (DATE, dim)
RECURSIVE SortRows(_, _)
SortRows(s, dim) ==
    IF s = <<>> THEN <<>>
    ELSE InsertRow(s[Len(s)], SortRows(SubSeq(s, 1, Len(s) - 1), dim), dim)

\* the sum of column col over the raw rows the entries stand for
RECURSIVE SumCol(_, _)
SumCol(s, col) ==
    IF s = <<>> THEN 0 ELSE Head(s).n * Head(s).c[col] + SumCol(Tail(s), col)

\* one row per group of `rows` under the key (Bucket(DATE), dim), holding the
\* sums of the columns agg; no particular order
GroupSum(rows, dim, agg, Bucket(_)) ==
    LET keys == {<<Bucket(rows[i].c[DATE]), DimOf(rows[i], dim)>> : i \in 1..Len(rows)}
        Members(k) ==
            SelectSeq(rows, LAMBDA r : <<Bucket(r.c[DATE]), DimOf(r, dim)>> = k)
        Cells(k) ==
            [col \in {DATE} \cup (IF dim = "ALL" THEN {} ELSE {dim}) \cup Range(agg) |->
                IF col = DATE THEN k[1]
                ELSE IF col \in Range(agg) THEN SumCol(Members(k), col)
                ELSE k[2]]
    IN  {Row(0, 1, Cells(k)) : k \in keys}

\* the elements of a set of rows with distinct (DATE, dim), sorted
RECURSIVE SortedRows(_, _)
SortedRows(S, dim) ==
    IF S = {} THEN <<>>
    ELSE LET m == CHOOSE x \in S : \A y \in S \ {x} : RowLess(x, y, dim)
         IN  <<m>> \o SortedRows(S \ {m}, dim)

KeyCols(dim) == IF dim = "ALL" THEN <<DATE>> ELSE <<DATE, dim>>

\* CollapseDimensions(measure, dimension).transform(X)
CollapseDimensions(m, dim, X) ==
    IF ~(Range(KeyCols(dim)) \cup Range(STRUCTURE[m]) \subseteq Range(X.cols))
    THEN Raised
    ELSE Ok(Table(KeyCols(dim) \o STRUCTURE[m], X.obj \cap {dim},
                  RangeIndex(SortedRows(
                      GroupSum(X.rows, dim, STRUCTURE[m], LAMBDA t : t), dim))))

\* pat occurs in s at position i
OccursAt(s, pat, i) ==
    /\ i + Len(pat) - 1 <= Len(s)
    /\ \A k \in 1..Len(pat) : s[i + k - 1] = pat[k]

\* Python's `pat in s`, and re.search of a pattern without special characters
Contains(s, pat) == \E i \in 1..(Len(s) + 1) : OccursAt(s, pat, i)

\* re.search(pat, s) for a pattern whose only special characters are the
\* parentheses of groups: a group matches what its content matches
Search(pat, s) ==
    Contains(s, SelectSeq(pat, LAMBDA ch : ch \notin {"(", ")"}))

\* Series.str.contains("|".join(category)) for one cell s
MatchesAny(s, category) ==
    IF category = <<>> THEN TRUE
    ELSE \E k \in 1..Len(category) : Search(category[k], s)

\* a filter that removes the rows whose cell is one of the names, while it
\* keeps the rows whose cell matches one
FilterCategory_removes_equal(dim, category, remove, X) ==
    IF dim = "ALL" THEN Ok(X)
    ELSE IF Upper(dim) \notin X.obj THEN Raised
    ELSE LET filt(r) == MatchesAny(r.c[Upper(dim)], category)
             same(r) == r.c[Upper(dim)] \in Range(category)
         IN  IF remove
             THEN Ok(Table(X.cols, X.obj,
                           RangeIndex(SelectSeq(X.rows, LAMBDA r : ~same(r)))))
             ELSE Ok(Table(X.cols, X.obj, SelectSeq(X.rows, filt)))

\* FilterCategory(dimension, category, remove).transform(X)
FilterCategory(dim, category, remove, X) ==
    IF dim = "ALL" THEN Ok(X)
    ELSE IF Upper(dim) \notin X.obj THEN Raised
    ELSE LET filt(r) == MatchesAny(r.c[Upper(dim)], category)
         IN  IF remove
             THEN Ok(Table(X.cols, X.obj,
                           RangeIndex(SelectSeq(X.rows, LAMBDA r : ~filt(r)))))
             ELSE Ok(Table(X.cols, X.obj, SelectSeq(X.rows, filt)))

\* the length in days of a period of the frequency
Period(frequency) == IF frequency = "W-MON" THEN 7 ELSE 1

\* the bins resample(frequency, closed="left", label="left") makes for the
\* rows of one group: every period from the first to the last one that holds
\* a row, the empty ones with sum 0
Resampled(rows, dim, agg, frequency) ==
    LET P == Period(frequency)
        Bin(t) == P * (t \div P)
        bins == {Bin(rows[i].c[DATE]) : i \in 1..Len(rows)}
        lo == CHOOSE b \in bins : \A x \in bins : b <= x
        hi == CHOOSE b \in bins : \A x \in bins : x <= b
        full == GroupSum(rows, dim, agg, Bin)
        Zero(b) ==
            Row(0, 1, [col \in DOMAIN rows[1].c |->
                          IF col = DATE THEN b
                          ELSE IF col \in Range(agg) THEN 0 ELSE rows[1].c[col]])
    IN  full \cup {Zero(b) : b \in {x \in lo..hi : x % P = 0 /\ x \notin bins}}

\* ConvertFrequency(dimension, frequency).transform(X), for a collapsed X
\* (columns: the keys, then the aggregated columns)
ConvertFrequency(dim, frequency, X) ==
    LET agg == SubSeq(X.cols, Len(KeyCols(dim)) + 1, Len(X.cols))
        cats == {DimOf(X.rows[i], dim) : i \in 1..Len(X.rows)}
        Of(cat) == SelectSeq(X.rows, LAMBDA r : DimOf(r, dim) = cat)
        groups == UNION {Resampled(Of(cat), dim, agg, frequency) : cat \in cats}
    IN  Ok(Table(X.cols, X.obj, RangeIndex(SortedRows(groups, dim))))

RECURSIVE GCD(_, _)
GCD(a, b) == IF b = 0 THEN a ELSE GCD(b, a % b)

\* the float a / b: <<0, 0>> is NaN, <<1, 0>> is inf
Ratio(a, b) ==
    IF b = 0 THEN (IF a = 0 THEN <<0, 0>> ELSE <<1, 0>>)
    ELSE <<a \div GCD(a, b), b \div GCD(a, b)>>

\* AddMeasure(measure, dimension).transform(X)
AddMeasure(m, dim, X) ==
    LET n == Len(X.rows)
        proportion == m \in {"QUOTE_PROPORTION", "SALES_PROPORTION"}
        count == IF m \in {"QUOTE_PROPORTION", "QUOTE_VOLUME"}
                 THEN "QUOTE_COUNT" ELSE "SALES_COUNT"
        total == IF m = "QUOTE_PROPORTION"
                 THEN "TOTAL_QUOTE_COUNT" ELSE "TOTAL_SALES_COUNT"
        \* X.sort_values([DATE, dim]).merge(totals per DATE): a new RangeIndex
        merged == SortRows(X.rows, dim)
        Total(i) ==
            SumCol(SelectSeq(X.rows, LAMBDA r : r.c[DATE] = merged[i].c[DATE]), count)
        \* a column built from `merged` is aligned to X by index label
        At(r) == r.idx + 1
        Value(r) ==
            CASE dim = "ALL" /\ proportion -> Ratio(1, 1)
              [] m = "QUOTE_VOLUME"        -> Ratio(r.c["QUOTE_COUNT"], 1)
              [] m = "SALES_VOLUME"        -> Ratio(r.c["SALES_COUNT"], 1)
              [] proportion                ->
                    IF At(r) \in 1..n
                    THEN Ratio(merged[At(r)].c[count], Total(At(r)))
                    ELSE <<0, 0>>
              [] OTHER -> Ratio(r.c["SALES_COUNT"], r.c["QUOTE_COUNT"])
        withTotal == proportion /\ dim # "ALL"
        \* X[name] = ...: a new column at the end, or the column overwritten
        cols == X.cols
                \o (IF withTotal /\ total \notin Range(X.cols) THEN <<total>> ELSE <<>>)
                \o (IF m \notin Range(X.cols) THEN <<m>> ELSE <<>>)
    IN  Ok(Table(cols, X.obj,
                 [i \in 1..n |->
                     [X.rows[i] EXCEPT !.c =
                         [col \in Range(cols) |->
                             IF col = m THEN Value(X.rows[i])
                             ELSE IF col = total /\ withTotal
                                  THEN (IF At(X.rows[i]) \in 1..n
                                        THEN Total(At(X.rows[i])) ELSE NaN)
                             ELSE X.rows[i].c[col]]]]))

\* a pipeline that removes the bad categories before it collapses
dimension_pipeline_removes_first(m, dim, frequency, bad_categories) ==
    IF dim = "ALL"
    THEN <<[name |-> "CollapseDimensions"],
           [name |-> "ConvertWeekly", frequency |-> frequency],
           [name |-> "AddMeasure"]>>
    ELSE <<[name |-> "RemoveBadCategories",
            category |-> <<UNKNOWN>> \o bad_categories],
           [name |-> "CollapseDimensions"],
           [name |-> "ConvertWeekly", frequency |-> frequency],
           [name |-> "AddMeasure"]>>

\* dimension_pipeline(measure, dimension, frequency, bad_categories): the steps
dimension_pipeline(m, dim, frequency, bad_categories) ==
    IF dim = "ALL"
    THEN <<[name |-> "CollapseDimensions"],
           [name |-> "ConvertWeekly", frequency |-> frequency],
           [name |-> "AddMeasure"]>>
    ELSE <<[name |-> "CollapseDimensions"],
           [name |-> "RemoveBadCategories",
            category |-> <<UNKNOWN>> \o bad_categories],
           [name |-> "ConvertWeekly", frequency |-> frequency],
           [name |-> "AddMeasure"]>>

\* one step of the pipeline built for (m, dim).  What pandas does when it
\* resamples a dataframe without rows is not fixed by the code: lib.emptyRaises
\* says whether it raises
Transform(step, m, dim, X, lib) ==
    CASE step.name = "CollapseDimensions"  -> CollapseDimensions(m, dim, X)
      [] step.name = "RemoveBadCategories" ->
            FilterCategory(dim, step.category, TRUE, X)
      [] step.name = "ConvertWeekly"       ->
            IF X.rows = <<>> /\ lib.emptyRaises THEN Raised
            ELSE ConvertFrequency(dim, step.frequency, X)
      [] step.name = "AddMeasure"          -> AddMeasure(m, dim, X)

\* Pipeline.fit_transform(X): the steps in order, until one raises
RECURSIVE fit_transform(_, _, _, _, _)
fit_transform(steps, m, dim, X, lib) ==
    IF steps = <<>> THEN Ok(X)
    ELSE LET r == Transform(Head(steps), m, dim, X, lib)
         IN  IF r.ok THEN fit_transform(Tail(steps), m, dim, r.X, lib) ELSE Raised

-----------------------------------------------------------------------------
(* Amodely.detect_anomalies.  The detectors (statsmodels' STL, pmdarima's   *)
(* auto_arima) are libraries: what they answer is drawn from `lib`,         *)
(*   lib.fail   the position in self.categories of the category for which   *)
(*              the detector raises (0: for none),                          *)
(*   lib.seed   which residuals / forecast intervals they compute.          *)

RECURSIVE SortedStrs(_)
SortedStrs(S) ==
    IF S = {} THEN <<>>
    ELSE LET m == CHOOSE x \in S : \A y \in S \ {x} : StrLess(x, y)
         IN  <<m>> \o SortedStrs(S \ {m})

\* the categories property, main being the main dataframe
categories(main, dim) ==
    IF dim = "ALL" THEN <<ALL>>
    ELSE SortedStrs({main.rows[i].c[dim] : i \in 1..Len(main.rows)})

\* categories with less than this many rows are bad
BadCategoryFloor == 100

\* the bad_categories property, W being the working dataframe
bad_categories(main, W, dim) ==
    IF dim = "ALL" THEN <<>>
    ELSE LET value_counts(cat) ==
                 NRows(Table(W.cols, W.obj,
                             SelectSeq(W.rows, LAMBDA r : r.c[dim] = cat)))
             few == SortedStrs({cat \in {W.rows[i].c[dim] : i \in 1..Len(W.rows)} :
                                   value_counts(cat) < BadCategoryFloor})
             unknown == SelectSeq(categories(main, dim),
                                  LAMBDA cat : Contains(cat, UNKNOWN))
         IN  IF unknown # <<>> THEN Append(few, unknown[1]) ELSE few

\* norm.ppf(sig_level / 2) in thousandths, sig_level in percent
norm_ppf_lower(sig_level) ==
    CASE sig_level = 5  -> -1960
      [] sig_level = 1  -> -2576
      [] sig_level = 10 -> -1645

\* the standardized residuals STL may give, in thousandths
ScoreLadder == <<0, 1960, -1959, -3000, 1959, -1960, 2576>>

\* the standardized residual of the j-th point of the k-th category's series
Score(lib, k, j) ==
    IF lib.seed = 0 THEN 0
    ELSE ScoreLadder[((lib.seed + 2 * k + j) % Len(ScoreLadder)) + 1]

\* whether the i-th test value lies outside its forecast interval
Outside(lib, k, i) == lib.seed # 0 /\ (lib.seed + k + i) % 2 = 0

\* an stl branch with the bounds themselves not flagged
StlFrame_strict(X, sig_level, lib, k) ==
    LET n == Len(X.rows)
        cols == X.cols \o <<"STANDARD_DEVIATIONS", "ANOMALY">>
        min_bound == norm_ppf_lower(sig_level)
        max_bound == 0 - norm_ppf_lower(sig_level)
        Joined(r, j) ==
            [n |-> r.n,
             c |-> [col \in Range(cols) |->
                      CASE col = "STANDARD_DEVIATIONS" -> Score(lib, k, j)
                        [] col = "ANOMALY" ->
                              (Score(lib, k, j) < min_bound \/ Score(lib, k, j) > max_bound)
                        [] OTHER -> r.c[col]]]
        RECURSIVE Matches(_, _)
        Matches(r, j) ==
            IF j > n THEN <<>>
            ELSE (IF X.rows[j].c[DATE] = r.c[DATE] THEN <<Joined(r, j)>> ELSE <<>>)
                 \o Matches(r, j + 1)
        RECURSIVE Merge(_)
        Merge(i) == IF i > n THEN <<>> ELSE Matches(X.rows[i], 1) \o Merge(i + 1)
    IN  Table(cols, X.obj, RangeIndex(Merge(1)))

\* an stl branch that keeps the flagged rows only
StlFrame_flagged_only(X, sig_level, lib, k) ==
    LET n == Len(X.rows)
        cols == X.cols \o <<"STANDARD_DEVIATIONS", "ANOMALY">>
        min_bound == norm_ppf_lower(sig_level)
        max_bound == 0 - norm_ppf_lower(sig_level)
        Flag(j) == Score(lib, k, j) <= min_bound \/ Score(lib, k, j) >= max_bound
        Joined(r, j) ==
            [n |-> r.n,
             c |-> [col \in Range(cols) |->
                      CASE col = "STANDARD_DEVIATIONS" -> Score(lib, k, j)
                        [] col = "ANOMALY" -> Flag(j)
                        [] OTHER -> r.c[col]]]
        RECURSIVE Matches(_, _)
        Matches(r, j) ==
            IF j > n THEN <<>>
            ELSE (IF X.rows[j].c[DATE] = r.c[DATE] /\ Flag(j)
                  THEN <<Joined(r, j)>> ELSE <<>>)
                 \o Matches(r, j + 1)
        RECURSIVE Merge(_)
        Merge(i) == IF i > n THEN <<>> ELSE Matches(X.rows[i], 1) \o Merge(i + 1)
    IN  Table(cols, X.obj, RangeIndex(Merge(1)))

\* df.merge(stds, on=DATE, how="left") and the ANOMALY column
StlFrame(X, sig_level, lib, k) ==
    LET n == Len(X.rows)
        cols == X.cols \o <<"STANDARD_DEVIATIONS", "ANOMALY">>
        min_bound == norm_ppf_lower(sig_level)
        max_bound == 0 - norm_ppf_lower(sig_level)
        Joined(r, j) ==
            [n |-> r.n,
             c |-> [col \in Range(cols) |->
                      CASE col = "STANDARD_DEVIATIONS" -> Score(lib, k, j)
                        [] col = "ANOMALY" ->
                              (Score(lib, k, j) <= min_bound \/ Score(lib, k, j) >= max_bound)
                        [] OTHER -> r.c[col]]]
        RECURSIVE Matches(_, _)
        Matches(r, j) ==
            IF j > n THEN <<>>
            ELSE (IF X.rows[j].c[DATE] = r.c[DATE] THEN <<Joined(r, j)>> ELSE <<>>)
                 \o Matches(r, j + 1)
        RECURSIVE Merge(_)
        Merge(i) == IF i > n THEN <<>> ELSE Matches(X.rows[i], 1) \o Merge(i + 1)
    IN  Table(cols, X.obj, RangeIndex(Merge(1)))

\* the arima branch: df.iloc[indices, :].copy()
steps == 4

\* an arima branch that tests every observation of the series
ArimaFrame_whole_series(X, lib, k) ==
    LET n == Len(X.rows)
        ntrain == 0
        indices == {ntrain + i : i \in {i \in 0..(n - ntrain - 1) : Outside(lib, k, i)}}
    IN  Table(X.cols, X.obj,
              SelectSeq([j \in 1..n |-> [row |-> X.rows[j], pos |-> j - 1]],
                        LAMBDA e : e.pos \in indices))

ArimaFrame(X, lib, k) ==
    LET n == Len(X.rows)
        ntrain == IF n > steps THEN n - steps ELSE 0
        indices == {ntrain + i : i \in {i \in 0..(n - ntrain - 1) : Outside(lib, k, i)}}
    IN  Table(X.cols, X.obj,
              SelectSeq([j \in 1..n |-> [row |-> X.rows[j], pos |-> j - 1]],
                        LAMBDA e : e.pos \in indices))

\* one pass of the loop body for the k-th category: [ok, frames]
Detect(piped, method, sig_level, dim, k, cat, lib) ==
    LET X == FilterCategory(dim, <<cat>>, FALSE, piped).X
    IN  CASE method = "arima" ->
               IF Len(X.rows) <= steps \/ lib.fail = k
               THEN [ok |-> FALSE, frames |-> <<>>]
               ELSE LET F == ArimaFrame(X, lib, k)
                    IN  [ok |-> TRUE,
                         frames |-> <<Table(F.cols, F.obj, MapSeq(F.rows, LAMBDA e : e.row))>>]
          [] method = "stl" ->
               IF lib.fail = k
               THEN [ok |-> FALSE, frames |-> <<>>]
               ELSE [ok |-> TRUE, frames |-> <<StlFrame(X, sig_level, lib, k)>>]
          [] OTHER -> [ok |-> TRUE, frames |-> <<>>]

\* the loop over self.categories from the k-th on: [ok, frames]
RECURSIVE Loop(_, _, _, _, _, _, _)
Loop(piped, method, sig_level, dim, cats, k, lib) ==
    IF k > Len(cats) THEN [ok |-> TRUE, frames |-> <<>>]
    ELSE LET r == Detect(piped, method, sig_level, dim, k, cats[k], lib)
             rest == Loop(piped, method, sig_level, dim, cats, k + 1, lib)
         IN  IF ~r.ok \/ ~rest.ok THEN [ok |-> FALSE, frames |-> <<>>]
             ELSE [ok |-> TRUE, frames |-> r.frames \o rest.frames]

\* the detector calls the loop makes from the k-th category on: for each, the
\* category and the series handed to the detector; the loop ends with the
\* call that raises
RECURSIVE Invoked(_, _, _, _, _, _, _)
Invoked(piped, method, sig_level, dim, cats, k, lib) ==
    IF k > Len(cats) \/ method \notin {"arima", "stl"} THEN <<>>
    ELSE <<[category |-> cats[k],
            series |-> FilterCategory(dim, <<cats[k]>>, FALSE, piped).X]>>
         \o (IF Detect(piped, method, sig_level, dim, k, cats[k], lib).ok
             THEN Invoked(piped, method, sig_level, dim, cats, k + 1, lib)
             ELSE <<>>)

\* pd.concat(frames), for a non-empty list of frames with the same columns
RECURSIVE ConcatRows(_)
ConcatRows(frames) ==
    IF frames = <<>> THEN <<>> ELSE Head(frames).rows \o ConcatRows(Tail(frames))

concat(frames) == Table(frames[1].cols, frames[1].obj, ConcatRows(frames))

\* DataFrame.sort_index(): by index label, equal labels in their old order
RECURSIVE InsertIdx(_, _)
InsertIdx(x, s) ==
    IF s = <<>> THEN <<x>>
    ELSE IF x.idx < Head(s).idx THEN <<x>> \o s
    ELSE <<Head(s)>> \o InsertIdx(x, Tail(s))

RECURSIVE SortIdx(_)
SortIdx(s) ==
    IF s = <<>> THEN <<>>
    ELSE InsertIdx(s[Len(s)], SortIdx(SubSeq(s, 1, Len(s) - 1)))

sort_index(X) == Table(X.cols, X.obj, SortIdx(X.rows))

\* the arguments detect_anomalies is called with
MethodSeq == <<"stl", "arima", "lof">>
SigLevelSeq == <<5>>
FilterSeq ==
    <<[dimension |-> "", categories |-> <<>>],
      [dimension |-> "PRODUCT", categories |-> <<CAR>>],
      [dimension |-> "REGION", categories |-> <<NSW>>]>>

Methods == Range(MethodSeq)
SigLevels == Range(SigLevelSeq)
Filters == Range(FilterSeq)

\* what the libraries may answer
MaxSeed == 1
MaxFail == 1
Libs == [fail : 0..MaxFail, seed : 0..MaxSeed, emptyRaises : BOOLEAN]

\* What a call of detect_anomalies computes, main being the main dataframe
\* and W the working dataframe it has just reset: how far it gets
\* ("filter", "pipeline", "loop", "concat": the step that raises; "done"),
\* and the dataframes it makes on the way
Run(main, W, m, dim, method, sig_level, f, lib) ==
    LET filtered == IF f.dimension = "" THEN Ok(W)
                    ELSE FilterCategory(f.dimension, f.categories, FALSE, W)
        piped == fit_transform(
                     dimension_pipeline(m, dim, "W-MON",
                                        bad_categories(main, filtered.X, dim)),
                     m, dim, filtered.X, lib)
        l == Loop(piped.X, method, sig_level, dim, categories(main, dim), 1, lib)
        stage == CASE ~filtered.ok    -> "filter"
                   [] ~piped.ok       -> "pipeline"
                   [] ~l.ok           -> "loop"
                   [] l.frames = <<>> -> "concat"
                   [] OTHER           -> "done"
    IN  [stage |-> stage,
         filtered |-> IF stage = "filter" THEN EmptyFrame ELSE filtered.X,
         piped |-> IF stage \in {"filter", "pipeline"} THEN EmptyFrame ELSE piped.X,
         anomalies |-> IF stage = "done" THEN sort_index(concat(l.frames))
                       ELSE EmptyFrame]

\* Run, computed once for each call that can be made on the input data;
\* the calls are numbered, a call being the sequence of the positions of its
\* arguments in the sequences below
MainTables == <<FillNA(0, Data1), FillNA(0, Data2)>>
MeasureSeq == <<"CONVERSION_RATE", "SALES_PROPORTION">>
DimensionSeq == <<"STATE", "PRODUCT", "ALL">>

Position(seq, e) ==
    IF \E i \in 1..Len(seq) : seq[i] = e
    THEN CHOOSE i \in 1..Len(seq) : seq[i] = e
    ELSE 0

Sizes ==
    <<Len(MainTables), Len(MeasureSeq), Len(DimensionSeq), Len(MethodSeq),
      Len(SigLevelSeq), Len(FilterSeq)>>

RECURSIVE Product(_)
Product(sizes) == IF sizes = <<>> THEN 1 ELSE Head(sizes) * Product(Tail(sizes))

\* positions (from 1) <-> number (from 0)
RECURSIVE CallNumber(_, _)
CallNumber(pos, sizes) ==
    IF pos = <<>> THEN 0
    ELSE (Head(pos) - 1) + Head(sizes) * CallNumber(Tail(pos), Tail(sizes))

RECURSIVE CallOf(_, _)
CallOf(n, sizes) ==
    IF sizes = <<>> THEN <<>>
    ELSE <<(n % Head(sizes)) + 1>> \o CallOf(n \div Head(sizes), Tail(sizes))

\* the outcomes of a run, over all answers of the libraries
Runs(main, W, m, dim, method, sig_level, f) ==
    {Run(main, W, m, dim, method, sig_level, f, lib) : lib \in Libs}

RunTable ==
    [n \in 0..(Product(Sizes) - 1) |->
        LET p == CallOf(n, Sizes)
        IN  Runs(MainTables[p[1]], MainTables[p[1]], MeasureSeq[p[2]],
                 DimensionSeq[p[3]], MethodSeq[p[4]], SigLevelSeq[p[5]],
                 FilterSeq[p[6]])]

RunsOf(main, W, m, dim, method, sig_level, f) ==
    LET p == <<Position(MainTables, main), Position(MeasureSeq, m),
               Position(DimensionSeq, dim), Position(MethodSeq, method),
               Position(SigLevelSeq, sig_level), Position(FilterSeq, f)>>
    IN  IF W = main /\ \A i \in 1..Len(p) : p[i] >= 1
        THEN RunTable[CallNumber(p, Sizes)]
        ELSE Runs(main, W, m, dim, method, sig_level, f)

-----------------------------------------------------------------------------
(* The heap *)

NoTable == EmptyFrame

\* the id of a new object, given the objects still referenced
Fresh(live) == CHOOSE i \in Ids \ live : \A j \in Ids \ live : i <= j

\* the heap with table T stored as object id, and every object that is
\* referenced by none of `live` collected
Store(h, id, T, live) ==
    [i \in Ids |-> IF i = id THEN T ELSE IF i \in live THEN h[i] ELSE NoTable]

\* the tables the references denote
InputTable == heap[input]
MainTable  == heap[main_df]
WorkTable  == heap[df]

\* the model object and the caller's dataframe, as one value
Self ==
    [input |-> input, main_df |-> main_df, df |-> df, heap |-> heap,
     measure |-> measure, dimension |-> dimension, anomalies_ |-> anomalies_]

\* the call `op`, made with the name or the arguments `arg`, ends in state `self`, normally
\* (ok) or by raising; `at` is where a detection run ended, `had` whether
\* the anomaly table had rows when the call was made, `dirty` whether the
\* working table then differed from the main table
Becomes(self, op, arg, ok, at) ==
    /\ input' = self.input
    /\ main_df' = self.main_df
    /\ df' = self.df
    /\ heap' = self.heap
    /\ measure' = self.measure
    /\ dimension' = self.dimension
    /\ anomalies_' = self.anomalies_
    /\ last' = [op |-> op, arg |-> arg, ok |-> ok, at |-> at,
                had |-> anomalies_.rows # <<>>,
                dirty |-> df # NoRef /\ WorkTable # MainTable]
    /\ UNCHANGED <<pc, locals>>

-----------------------------------------------------------------------------
(* Amodely: properties and setters *)

\* main_df.setter: self._main_df = X.copy()
main_df_setter(self, X) ==
    LET live == {self.input, self.df}
        id   == Fresh(live)
    IN  [self EXCEPT !.main_df = id, !.heap = Store(self.heap, id, X, live)]

\* df.setter: self._df = X.copy()
df_setter(self, X) ==
    LET live == {self.input, self.main_df}
        id   == Fresh(live)
    IN  [self EXCEPT !.df = id, !.heap = Store(self.heap, id, X, live)]

\* a setter that also drops the results computed for the old measure
measure_setter_clears(self, m) ==
    IF m \in DOMAIN STRUCTURE
    THEN [ok |-> TRUE,
          self |-> [self EXCEPT !.measure = m, !.anomalies_ = EmptyFrame]]
    ELSE [ok |-> FALSE, self |-> self]

\* a setter that stores the name before it validates it
measure_setter_stores_first(self, m) ==
    [ok |-> m \in DOMAIN STRUCTURE, self |-> [self EXCEPT !.measure = m]]

\* measure.setter; ok = FALSE is the AttributeError
measure_setter(self, m) ==
    IF m \in DOMAIN STRUCTURE
    THEN [ok |-> TRUE, self |-> [self EXCEPT !.measure = m]]
    ELSE [ok |-> FALSE, self |-> self]

\* a dimensions property that reads the working dataframe
dimensions_of_working(self) ==
    LET work == self.heap[self.df]
    IN  SelectSeq(work.cols, LAMBDA col : col \in work.obj)

\* the dimensions property: the object columns of the main dataframe
dimensions(self) ==
    LET main == self.heap[self.main_df]
    IN  SelectSeq(main.cols, LAMBDA col : col \in main.obj)

\* a setter that compares the name as it was given
dimension_setter_as_given(self, d) ==
    IF d \in Range(dimensions(self)) \/ d = "ALL"
    THEN [ok |-> TRUE, self |-> [self EXCEPT !.dimension = d]]
    ELSE [ok |-> FALSE, self |-> self]

\* dimension.setter; ok = FALSE is the AttributeError
dimension_setter(self, d) ==
    LET dim == Upper(d)
    IN  IF dim \in Range(dimensions(self)) \/ dim = "ALL"
        THEN [ok |-> TRUE, self |-> [self EXCEPT !.dimension = dim]]
        ELSE [ok |-> FALSE, self |-> self]

\* a reset that binds the working table to the main table's object
reset_working_shared(self) == [self EXCEPT !.df = self.main_df]

\* a reset that leaves the working table as it is
reset_working_skipped(self) == self

\* reset_working(): self.df = self.main_df.copy()
reset_working(self) == df_setter(self, self.heap[self.main_df])

\* a constructor whose chained assignment binds both tables to one object
init_shared(self, m, d) ==
    LET filled == FillNA(0, self.heap[self.input])
        s1 == main_df_setter(self, filled)
        s2 == [s1 EXCEPT !.df = s1.main_df]
        r3 == measure_setter(s2, IF m = None THEN "CONVERSION_RATE" ELSE m)
        r4 == dimension_setter(r3.self,
                               IF d = None THEN dimensions(r3.self)[1] ELSE d)
    IN  IF ~r3.ok THEN [ok |-> FALSE, self |-> self]
        ELSE IF ~r4.ok THEN [ok |-> FALSE, self |-> self]
        ELSE [ok |-> TRUE, self |-> [r4.self EXCEPT !.anomalies_ = EmptyFrame]]

\* __init__(df, measure, dimension); ok = FALSE when a setter raises
init(self, m, d) ==
    LET filled == FillNA(0, self.heap[self.input])
        s1 == main_df_setter(self, filled)
        s2 == df_setter(s1, filled)
        r3 == measure_setter(s2, IF m = None THEN "CONVERSION_RATE" ELSE m)
        r4 == dimension_setter(r3.self,
                               IF d = None THEN dimensions(r3.self)[1] ELSE d)
    IN  IF ~r3.ok THEN [ok |-> FALSE, self |-> self]
        ELSE IF ~r4.ok THEN [ok |-> FALSE, self |-> self]
        ELSE [ok |-> TRUE, self |-> [r4.self EXCEPT !.anomalies_ = EmptyFrame]]

\* an append that does not compare the columns
append_unchecked(self, table, sort_after) ==
    LET main == self.heap[self.main_df]
        Cells(r) == [col \in Range(main.cols) |->
                        IF col \in DOMAIN r.c THEN r.c[col] ELSE NaN]
        rows == main.rows \o [i \in 1..Len(table.rows) |->
                                [table.rows[i] EXCEPT !.c = Cells(table.rows[i])]]
    IN  main_df_setter(self, Table(main.cols, main.obj,
                                   IF sort_after THEN SortRows(rows, "ALL") ELSE rows))

\* append(table, sort_after): the rows of `table` added to the main table
\* when both have the same set of columns, nothing otherwise
append(self, table, sort_after) ==
    LET main == self.heap[self.main_df]
        rows == main.rows \o table.rows
    IN  IF Range(table.cols) # Range(main.cols) THEN self
        ELSE main_df_setter(self, Table(main.cols, main.obj,
                                        IF sort_after THEN SortRows(rows, "ALL")
                                        ELSE rows))

detect_anomalies_appends(self, method, sig_level, f, r) ==
    LET s1 == reset_working(self)
        s2 == IF f.dimension = "" THEN s1 ELSE df_setter(s1, r.filtered)
        s3 == df_setter(s2, r.piped)
        s4 == reset_working(s3)
        old == self.anomalies_
    IN  CASE r.stage = "filter"   -> [ok |-> FALSE, at |-> r.stage, self |-> s1]
          [] r.stage = "pipeline" -> [ok |-> FALSE, at |-> r.stage, self |-> s2]
          [] r.stage = "loop"     -> [ok |-> FALSE, at |-> r.stage, self |-> s3]
          [] r.stage = "concat"   -> [ok |-> FALSE, at |-> r.stage, self |-> s4]
          [] r.stage = "done"     ->
                [ok |-> TRUE, at |-> r.stage,
                 self |-> [s4 EXCEPT !.anomalies_ =
                             IF old.rows = <<>> THEN r.anomalies
                             ELSE sort_index(Table(r.anomalies.cols, r.anomalies.obj,
                                                   old.rows \o r.anomalies.rows))]]

\* a run that assigns the pipeline's result to the main table
detect_anomalies_on_main(self, method, sig_level, f, r) ==
    LET s1 == reset_working(self)
        s2 == IF f.dimension = "" THEN s1 ELSE df_setter(s1, r.filtered)
        s3 == main_df_setter(s2, r.piped)
        s4 == reset_working(s3)
    IN  CASE r.stage = "filter"   -> [ok |-> FALSE, at |-> r.stage, self |-> s1]
          [] r.stage = "pipeline" -> [ok |-> FALSE, at |-> r.stage, self |-> s2]
          [] r.stage = "loop"     -> [ok |-> FALSE, at |-> r.stage, self |-> s3]
          [] r.stage = "concat"   -> [ok |-> FALSE, at |-> r.stage, self |-> s4]
          [] r.stage = "done"     ->
                [ok |-> TRUE, at |-> r.stage,
                 self |-> [s4 EXCEPT !.anomalies_ = r.anomalies]]

\* a run that leaves the piped table in place when it is done
detect_anomalies_keeps_piped(self, method, sig_level, f, r) ==
    LET s1 == reset_working(self)
        s2 == IF f.dimension = "" THEN s1 ELSE df_setter(s1, r.filtered)
        s3 == df_setter(s2, r.piped)
        s4 == s3
    IN  CASE r.stage = "filter"   -> [ok |-> FALSE, at |-> r.stage, self |-> s1]
          [] r.stage = "pipeline" -> [ok |-> FALSE, at |-> r.stage, self |-> s2]
          [] r.stage = "loop"     -> [ok |-> FALSE, at |-> r.stage, self |-> s3]
          [] r.stage = "concat"   -> [ok |-> FALSE, at |-> r.stage, self |-> s4]
          [] r.stage = "done"     ->
                [ok |-> TRUE, at |-> r.stage,
                 self |-> [s4 EXCEPT !.anomalies_ = r.anomalies]]

\* a run that resets the working table when a detector raises
detect_anomalies_resets_on_failure(self, method, sig_level, f, r) ==
    LET s1 == reset_working(self)
        s2 == IF f.dimension = "" THEN s1 ELSE df_setter(s1, r.filtered)
        s3 == df_setter(s2, r.piped)
        s4 == reset_working(s3)
    IN  CASE r.stage = "filter"   -> [ok |-> FALSE, at |-> r.stage, self |-> s1]
          [] r.stage = "pipeline" -> [ok |-> FALSE, at |-> r.stage, self |-> s2]
          [] r.stage = "loop"     -> [ok |-> FALSE, at |-> r.stage, self |-> s4]
          [] r.stage = "concat"   -> [ok |-> FALSE, at |-> r.stage, self |-> s4]
          [] r.stage = "done"     ->
                [ok |-> TRUE, at |-> r.stage,
                 self |-> [s4 EXCEPT !.anomalies_ = r.anomalies]]

\* detect_anomalies(method, sig_level, f.dimension, f.categories), given the
\* outcome r of its computations: [ok, at, self]; ok = FALSE when it raises,
\* and `at` is the stage it raised in ("done" when it returned)
detect_anomalies(self, method, sig_level, f, r) ==
    LET s1 == reset_working(self)
        \* self.df = FilterCategory(...).fit_transform(self.df)
        s2 == IF f.dimension = "" THEN s1 ELSE df_setter(s1, r.filtered)
        \* self.df = dimension_pipeline(...).fit_transform(self.df)
        s3 == df_setter(s2, r.piped)
        s4 == reset_working(s3)
    IN  CASE r.stage = "filter"   -> [ok |-> FALSE, at |-> r.stage, self |-> s1]
          [] r.stage = "pipeline" -> [ok |-> FALSE, at |-> r.stage, self |-> s2]
          [] r.stage = "loop"     -> [ok |-> FALSE, at |-> r.stage, self |-> s3]
          [] r.stage = "concat"   -> [ok |-> FALSE, at |-> r.stage, self |-> s4]
          [] r.stage = "done"     ->
                [ok |-> TRUE, at |-> r.stage,
                 self |-> [s4 EXCEPT !.anomalies_ = r.anomalies]]

-----------------------------------------------------------------------------
(* lib/arimatools.py.  A time series is a sequence of integers.  The tests  *)
(* and estimates of statsmodels (adfuller, pacf, acf) are libraries: what   *)
(* they answer is drawn from `lib`,                                         *)
(*   lib.adf[order]  the ADF test on the series differenced `order` times:  *)
(*                   "pass" (p-value < sig_level), "fail", or "raise",      *)
(*   lib.q, lib.p    how many leading ACF / PACF lags lie outside the       *)
(*                   critical region, before the cut to the lags computed.  *)

\* calc_d(iter=3)
MaxIter == 3

\* Series.diff().dropna()
diff(s) == [i \in 1..(Len(s) - 1) |-> s[i + 1] - s[i]]

\* the series differenced k times
RECURSIVE Differenced(_, _)
Differenced(s, k) == IF k = 0 THEN s ELSE Differenced(diff(s), k - 1)

RECURSIVE SumSeq(_)
SumSeq(s) == IF s = <<>> THEN 0 ELSE Head(s) + SumSeq(Tail(s))

\* np.std(s) squared, as the fraction <<num, den>>; <<0, 0>> (NaN) for an
\* empty series
Variance(s) ==
    LET n == Len(s)
    IN  IF n = 0 THEN <<0, 0>>
        ELSE <<n * SumSeq([i \in 1..n |-> s[i] * s[i]]) - SumSeq(s) * SumSeq(s), n * n>>

\* a <= b for two variances; a comparison with NaN is false
VarianceLeq(a, b) == a[2] # 0 /\ b[2] # 0 /\ a[1] * b[2] <= b[1] * a[2]

\* is_stationary(series differenced `order` times): "pass", "fail", "raise"
is_stationary(order, lib) == lib.adf[order]

\* the entries (series, np.std(series), order) of the list `differences`
Differences(time_series, iter) ==
    [k \in 1..(iter + 1) |->
        [series |-> Differenced(time_series, k - 1),
         std    |-> Variance(Differenced(time_series, k - 1)),
         order  |-> k - 1]]

\* the loop of calc_d over `differences` from entry i on: [ok, d]
RECURSIVE FirstStationary(_, _, _)
FirstStationary(differences, i, lib) ==
    IF i > Len(differences) THEN [ok |-> TRUE, d |-> 0]
    ELSE LET answer == is_stationary(differences[i].order, lib)
         IN  CASE answer = "raise" -> [ok |-> FALSE, d |-> 0]
               [] answer = "pass"  -> [ok |-> TRUE, d |-> differences[i].order]
               [] OTHER            -> FirstStationary(differences, i + 1, lib)

\* calc_d(time_series, iter): [ok, d].  sorted(differences, key=...) returns
\* a new list, which the code drops: the loop goes over `differences` in the
\* order they were appended in.
calc_d(time_series, iter, lib) ==
    FirstStationary(Differences(time_series, iter), 1, lib)

\* the least n with 10 * log10(n) >= k, for k = 1, 2, ...
LogSteps == <<2, 2, 2, 3, 4, 4, 6, 7, 8, 10, 13, 16, 20, 26, 32, 40, 51>>

\* int(10 * np.log10(size)), for 1 <= size < 64
IntLog(size) == Cardinality({k \in 1..Len(LogSteps) : LogSteps[k] <= size})

Min(a, b) == IF a <= b THEN a ELSE b

\* nlags = min(int(10*np.log10(size)), size//2 - 1)
NLags(size) == Min(IntLog(size), (size \div 2) - 1)

\* calc_p(time_series): [ok, p].  int(-inf) raises for an empty series, and
\* conf_int[0] raises when no lag but lag 0 was computed
calc_p(time_series, lib) ==
    LET size == Len(time_series)
    IN  IF size = 0 \/ NLags(size) < 1 THEN [ok |-> FALSE, p |-> 0]
        ELSE [ok |-> TRUE, p |-> Min(lib.p, NLags(size))]

\* calc_q(time_series): [ok, q]
calc_q(time_series, lib) ==
    LET size == Len(time_series)
    IN  IF size = 0 THEN [ok |-> FALSE, q |-> 0]
        ELSE IF NLags(size) < 1 THEN [ok |-> TRUE, q |-> 0]
        ELSE [ok |-> TRUE, q |-> Min(lib.q, NLags(size))]

\* the `while q >= 10` loop of calc_parameters, after `turns` turns:
\* [ok, p, d, q, turns]
RECURSIVE Reduce(_, _, _, _, _, _)
Reduce(series_diff, p, d, q, turns, lib) ==
    IF q >= 10
    THEN LET next == diff(series_diff)
             pr   == calc_p(next, lib)
         IN  IF ~pr.ok THEN [ok |-> FALSE, p |-> 0, d |-> 0, q |-> 0, turns |-> turns + 1]
             ELSE Reduce(next, pr.p, d + 1, q - 5, turns + 1, lib)
    ELSE [ok |-> TRUE, p |-> p, d |-> d, q |-> q, turns |-> turns]

\* a calc_parameters without the loop that lowers q
calc_parameters_unreduced(time_series, lib) ==
    LET dr == calc_d(time_series, MaxIter, lib)
        series_diff == Differenced(time_series, dr.d)
        pr == calc_p(series_diff, lib)
        qr == calc_q(series_diff, lib)
    IN  IF ~dr.ok \/ ~pr.ok \/ ~qr.ok
        THEN [ok |-> FALSE, p |-> 0, d |-> 0, q |-> 0, turns |-> 0]
        ELSE [ok |-> TRUE, p |-> pr.p, d |-> dr.d, q |-> qr.q, turns |-> 0]

\* calc_parameters(time_series): [ok, p, d, q, turns]
calc_parameters(time_series, lib) ==
    LET dr == calc_d(time_series, MaxIter, lib)
        series_diff == Differenced(time_series, dr.d)
        pr == calc_p(series_diff, lib)
        qr == calc_q(series_diff, lib)
    IN  IF ~dr.ok \/ ~pr.ok \/ ~qr.ok
        THEN [ok |-> FALSE, p |-> 0, d |-> 0, q |-> 0, turns |-> 0]
        ELSE Reduce(series_diff, pr.p, dr.d, qr.q, 0, lib)

\* the series and the answers the functions are called with
SeriesLen == 4
MaxValue == 1
LongLen == 35
MaxLags == 16

RECURSIVE SeqsOf(_, _)
SeqsOf(n, S) ==
    IF n = 0 THEN {<<>>}
    ELSE {Append(s, x) : s \in SeqsOf(n - 1, S), x \in S}

ShortSeries == SeqsOf(SeriesLen, 0..MaxValue)
LongSeries ==
    {[i \in 1..n |-> (i * i) % (MaxValue + 1)] : n \in {SeriesLen - 1, SeriesLen + 2, 22, LongLen}}

AdfAnswers == [0..MaxIter -> {"pass", "fail", "raise"}]
ArimaLibs == [adf : AdfAnswers, q : 0..MaxLags, p : {0, MaxLags}]

-----------------------------------------------------------------------------
(* The transformers, called on a dataframe object *)

\* the year of a date, a year of this calendar being four weeks long
Year(t) == t \div (4 * Period("W-MON"))

\* FilterYear(year).transform(X)
FilterYear(year, X) ==
    Ok(Table(X.cols, X.obj, SelectSeq(X.rows, LAMBDA r : Year(r.c[DATE]) = year)))

\* the transformers a caller applies by hand
Transformers ==
    {[name |-> "FillNA"],
     [name |-> "FilterCategory", dimension |-> "STATE", category |-> <<NSW_N>>,
      remove |-> FALSE],
     [name |-> "FilterCategory", dimension |-> "STATE", category |-> <<VIC>>,
      remove |-> TRUE],
     [name |-> "FilterYear", year |-> 0],
     [name |-> "CollapseDimensions"],
     [name |-> "RemoveBadCategories", category |-> <<UNKNOWN>>],
     [name |-> "ConvertWeekly", frequency |-> "W-MON"],
     [name |-> "AddMeasure"]}

\* step.transform(X)
TransformOf(step, m, dim, X, lib) ==
    CASE step.name = "FillNA"         -> Ok(FillNA(0, X))
      [] step.name = "FilterCategory" ->
            FilterCategory(step.dimension, step.category, step.remove, X)
      [] step.name = "FilterYear"     -> FilterYear(step.year, X)
      [] OTHER                        -> Transform(step, m, dim, X, lib)

\* out = step.fit_transform(X) for the dataframe object X = heap[ref], the
\* model's measure and dimension being the transformer's: [ok, out, self].
\* AddMeasure assigns its columns to X itself and returns X; the other
\* transformers return a dataframe pandas makes for the result.  An object
\* the caller does not hold any more is collected.
fit_transform_of(self, step, ref, lib) ==
    LET X    == self.heap[ref]
        r    == TransformOf(step, self.measure, self.dimension, X, lib)
        held == {self.input, self.main_df, self.df, ref}
        id   == Fresh(held)
    IN  IF ~r.ok
        THEN [ok |-> FALSE, out |-> NoRef,
              self |-> [self EXCEPT !.heap = Store(self.heap, ref, X, held)]]
        ELSE IF step.name = "AddMeasure"
        THEN [ok |-> TRUE, out |-> ref,
              self |-> [self EXCEPT !.heap = Store(self.heap, ref, r.X, held)]]
        ELSE [ok |-> TRUE, out |-> id,
              self |-> [self EXCEPT !.heap = Store(self.heap, id, r.X, held)]]

-----------------------------------------------------------------------------
(* The calls *)

\* the names the measure and the dimension are set to
MeasureArgs ==
    {None, "CONVERSION_RATE", "SALES_PROPORTION", "conversion_rate",
     "invalid measure"}
DimensionArgs == {None, "STATE", "ALL", "state", "new_col", "REGION"}

Constructed == main_df # NoRef

\* model = Amodely(df, m, d)
Construct(m, d) ==
    /\ ~Constructed
    /\ LET r == init(Self, m, d) IN Becomes(r.self, "init", "", r.ok, "")

\* model.measure = m
SetMeasure(m) ==
    /\ Constructed
    /\ LET r == measure_setter(Self, m) IN Becomes(r.self, "set_measure", m, r.ok, "")

\* model.dimension = d
SetDimension(d) ==
    /\ Constructed
    /\ LET r == dimension_setter(Self, d) IN Becomes(r.self, "set_dimension", d, r.ok, "")

\* model.reset_working()
ResetWorking ==
    /\ Constructed
    /\ Becomes(reset_working(Self), "reset_working", "", TRUE, "")

\* the caller changes a dataframe in place through a reference it holds:
\* X["new_col"] = "new values"
AddColumn(self, ref) ==
    [self EXCEPT !.heap[ref] = SetColumn(@, "new_col", TRUE, NEW_VALUES)]

MutateWorking ==
    /\ Constructed
    /\ Becomes(AddColumn(Self, df), "mutate_df", "", TRUE, "")

MutateMain ==
    /\ Constructed
    /\ Becomes(AddColumn(Self, main_df), "mutate_main_df", "", TRUE, "")

MutateInput ==
    /\ Constructed
    /\ Becomes(AddColumn(Self, input), "mutate_input", "", TRUE, "")

\* the tables given to append: the columns of the input in another order, a
\* column less, a column more, and the columns of a main table the caller
\* added a column to
AppendTables ==
    LET RowOf(cols, i) ==
            Row(i, 1, [col \in Range(cols) |->
                          CASE col = DATE          -> 3
                            [] col = "STATE"       -> NSW
                            [] col = "PRODUCT"     -> CAR
                            [] col = "QUOTE_COUNT" -> 7
                            [] col = "SALES_COUNT" -> 3
                            [] OTHER               -> NEW_VALUES])
        TableOf(cols) ==
            Table(cols, Range(cols) \ {DATE, "QUOTE_COUNT", "SALES_COUNT"},
                  <<RowOf(cols, 0), RowOf(cols, 1)>>)
    IN  {TableOf(<<"SALES_COUNT", "QUOTE_COUNT", "PRODUCT", "STATE", DATE>>),
         TableOf(<<DATE, "STATE", "QUOTE_COUNT", "SALES_COUNT">>),
         TableOf(<<DATE, "STATE", "PRODUCT", "QUOTE_COUNT", "SALES_COUNT", "REGION">>),
         TableOf(<<DATE, "STATE", "PRODUCT", "QUOTE_COUNT", "SALES_COUNT", "new_col">>)}

\* number of append calls that add rows
MaxAppended == 1

\* model.append(table, sort_after)
AppendTable(table, sort_after) ==
    /\ Constructed
    /\ Range(table.cols) = Range(MainTable.cols) =>
          Len(MainTable.rows) < Len(InputTable.rows) + MaxAppended * Len(table.rows)
    /\ Becomes(append(Self, table, sort_after), "append",
               [table |-> table, sort_after |-> sort_after], TRUE, "")

\* model.detect_anomalies(method, sig_level, f.dimension, f.categories),
\* with any answers of the libraries
DetectAnomalies(method, sig_level, f) ==
    /\ Constructed
    /\ LET s1 == reset_working(Self)
           runs == RunsOf(s1.heap[s1.main_df], s1.heap[s1.df], s1.measure,
                          s1.dimension, method, sig_level, f)
       IN  \E r \in runs :
              LET d == detect_anomalies(Self, method, sig_level, f, r)
              IN  Becomes(d.self, "detect_anomalies",
                          [method |-> method, sig_level |-> sig_level, f |-> f],
                          d.ok, d.at)

\* the step comes after step prev in a dimension pipeline
Follows(prev, step) ==
    \/ prev.name = "CollapseDimensions"
          /\ step.name \in {"RemoveBadCategories", "ConvertWeekly"}
    \/ prev.name = "RemoveBadCategories" /\ step.name = "ConvertWeekly"
    \/ prev.name = "ConvertWeekly" /\ step.name = "AddMeasure"

\* out = step.fit_transform(model.df), or out = step.fit_transform(out) with
\* the result of the call before, for the steps of a pipeline run one by one
ApplyTransformer(step, onResult) ==
    /\ Constructed
    /\ IF onResult
       THEN /\ last.op = "fit_transform"
            /\ last.ok
            /\ Follows(last.arg.step, step)
       ELSE step.name \notin {"RemoveBadCategories", "ConvertWeekly"}
    /\ step.name = "RemoveBadCategories" => dimension # "ALL"
    /\ LET ref == IF onResult THEN last.arg.out ELSE df
       IN  \* no detector is called: only lib.emptyRaises matters
           \E lib \in {l \in Libs : l.fail = 0 /\ l.seed = 0} :
              LET r == fit_transform_of(Self, step, ref, lib)
              IN  Becomes(r.self, "fit_transform",
                          [step |-> step, X |-> ref, out |-> r.out], r.ok, "")

\* d = atools.calc_d(time_series), for the series and the answers drawn
CalcD ==
    /\ last.op = "none"
    /\ last.arg.time_series \in ShortSeries
    /\ LET r == calc_d(last.arg.time_series, MaxIter, last.arg.lib)
       IN  Becomes(Self, "calc_d",
                   [time_series |-> last.arg.time_series, lib |-> last.arg.lib,
                    out |-> r.d], r.ok, "")

\* (p, d, q) = atools.calc_parameters(time_series), for the series and the
\* answers drawn
CalcParameters ==
    /\ last.op = "none"
    /\ last.arg.time_series \in LongSeries
    /\ LET r == calc_parameters(last.arg.time_series, last.arg.lib)
       IN  Becomes(Self, "calc_parameters",
                   [time_series |-> last.arg.time_series, lib |-> last.arg.lib,
                    out |-> <<r.p, r.d, r.q>>, turns |-> r.turns], r.ok, "")

-----------------------------------------------------------------------------
(* dash-app/app.py.  The callbacks update_hover and update_anomaly_graph    *)
(* work on the one model `anomaly` of models.py.  A change of the filter    *)
(* inputs fires both, and the server runs each in a thread of its own: the  *)
(* statements of the two interleave.  A step is one statement (a read of    *)
(* anomaly.df, the transformation and the assignment together); Python may  *)
(* switch threads inside a statement as well, which adds interleavings and  *)
(* takes none away.                                                         *)

Callbacks == {"update_hover", "update_anomaly_graph"}

\* no callback running
Idle == [c \in Callbacks |-> "idle"]

\* the year the dashboard uses for "all years"
AllYears == 2019

NoLocals ==
    [measure |-> None, dimension |-> None, year |-> AllYears,
     f |-> FilterSeq[1], lib |-> [fail |-> 0, seed |-> 0, emptyRaises |-> FALSE],
     k |-> 0, anomalies |-> <<>>]

\* callback c goes on to statement `label`, the model being `self` and the
\* locals `loc`
Goes(self, c, label, loc) ==
    \E s \in {self} :
       /\ input' = s.input
       /\ main_df' = s.main_df
       /\ df' = s.df
       /\ heap' = s.heap
       /\ measure' = s.measure
       /\ dimension' = s.dimension
       /\ anomalies_' = s.anomalies_
       /\ pc' = [pc EXCEPT ![c] = label]
       /\ locals' = loc
       /\ UNCHANGED last

\* anomaly.df = r.X, r being what a transformer gave for anomaly.df; the
\* callback ends when the transformer raised
Assigns(c, r, label) ==
    \E x \in {r} :
       IF x.ok THEN Goes(df_setter(Self, x.X), c, label, locals)
       ELSE Goes(Self, c, "raised", locals)

\* pl.dimension_pipeline(anomaly.measure, anomaly.dimension, frequency,
\* anomaly.bad_categories).fit_transform(anomaly.df); bad_categories raises a
\* KeyError when the working table has no column of the dimension
PipedWorking(frequency) ==
    IF dimension # "ALL" /\ dimension \notin Range(WorkTable.cols) THEN Raised
    ELSE fit_transform(
             dimension_pipeline(measure, dimension, frequency,
                                bad_categories(MainTable, WorkTable, dimension)),
             measure, dimension, WorkTable, locals.lib)

\* pl.FilterCategory(filter_dimension, filter_categories)
\*   .fit_transform(anomaly.df)
FilteredWorking ==
    FilterCategory(locals.f.dimension, locals.f.categories, FALSE, WorkTable)

\* the filter inputs change (or the page loads): both callbacks are called,
\* with the values of the inputs
Fire(m, d, year, f) ==
    /\ pc = Idle
    /\ pc' = [c \in Callbacks |-> "reset"]
    /\ locals' = [locals EXCEPT !.measure = m, !.dimension = d, !.year = year,
                                !.f = f]
    /\ UNCHANGED <<input, main_df, df, heap, measure, dimension, anomalies_, last>>

\* update_hover, line 119: anomaly.reset_working()
HoverReset ==
    /\ pc["update_hover"] = "reset"
    /\ Goes(reset_working(Self), "update_hover", "filter", locals)

\* update_hover, lines 122-124
HoverFilter ==
    /\ pc["update_hover"] = "filter"
    /\ IF locals.f.categories # <<>>
       THEN Assigns("update_hover", FilteredWorking, "pipeline")
       ELSE Goes(Self, "update_hover", "pipeline", locals)

\* update_hover, lines 126-129: the pipeline of daily frequency; the figure
\* is made and returned after it
HoverPipeline ==
    /\ pc["update_hover"] = "pipeline"
    /\ Assigns("update_hover", PipedWorking("D"), "returned")

\* update_anomaly_graph, line 175: anomaly.reset_working()
GraphReset ==
    /\ pc["update_anomaly_graph"] = "reset"
    /\ Goes(reset_working(Self), "update_anomaly_graph", "parameters", locals)

\* update_anomaly_graph, lines 178-181: the setters of measure and dimension
GraphParameters ==
    /\ pc["update_anomaly_graph"] = "parameters"
    /\ LET r1 == IF locals.measure # measure
                 THEN measure_setter(Self, locals.measure)
                 ELSE [ok |-> TRUE, self |-> Self]
           r2 == IF locals.dimension # r1.self.dimension
                 THEN dimension_setter(r1.self, locals.dimension)
                 ELSE [ok |-> TRUE, self |-> r1.self]
       IN  IF r1.ok /\ r2.ok
           THEN Goes(r2.self, "update_anomaly_graph", "filter", locals)
           ELSE Goes(r1.self, "update_anomaly_graph", "raised", locals)

\* update_anomaly_graph, lines 188-190
GraphFilter ==
    /\ pc["update_anomaly_graph"] = "filter"
    /\ IF locals.f.categories # <<>>
       THEN Assigns("update_anomaly_graph", FilteredWorking, "pipeline")
       ELSE Goes(Self, "update_anomaly_graph", "pipeline", locals)

\* update_anomaly_graph, lines 194-196: the pipeline of weekly frequency;
\* detect_anomalies is called next
GraphPipeline ==
    /\ pc["update_anomaly_graph"] = "pipeline"
    /\ Assigns("update_anomaly_graph", PipedWorking("W-MON"), "detect_reset")

\* detect_anomalies, line 217: self.reset_working()
DetectReset ==
    /\ pc["update_anomaly_graph"] = "detect_reset"
    /\ Goes(reset_working(Self), "update_anomaly_graph", "detect_filter", locals)

\* detect_anomalies, lines 218-220; the callback passes the filter only when
\* it has categories
DetectFilter ==
    /\ pc["update_anomaly_graph"] = "detect_filter"
    /\ IF locals.f.categories # <<>> /\ locals.f.dimension # ""
       THEN Assigns("update_anomaly_graph", FilteredWorking, "detect_pipeline")
       ELSE Goes(Self, "update_anomaly_graph", "detect_pipeline", locals)

\* detect_anomalies, lines 224-229: the pipeline, and anomalies = []
DetectPipeline ==
    /\ pc["update_anomaly_graph"] = "detect_pipeline"
    /\ \E r \in {PipedWorking("W-MON")} :
           IF r.ok
           THEN Goes(df_setter(Self, r.X), "update_anomaly_graph", "detect_loop",
                     [locals EXCEPT !.k = 1, !.anomalies = <<>>])
           ELSE Goes(Self, "update_anomaly_graph", "raised", locals)

\* detect_anomalies, lines 231-234 and 265-286: one pass of the loop, for the
\* k-th category, on the working table as it is now.  The filter raises when
\* the table has no column of the dimension, the decomposition when it has
\* no column of the measure
DetectCategory ==
    /\ pc["update_anomaly_graph"] = "detect_loop"
    /\ locals.k <= Len(categories(MainTable, dimension))
    /\ \E cat \in {categories(MainTable, dimension)[locals.k]} :
        \E X \in {FilterCategory(dimension, <<cat>>, FALSE, WorkTable)},
           r \in {Detect(WorkTable, "stl", SigLevelSeq[1], dimension, locals.k,
                         cat, locals.lib)} :
           IF X.ok /\ measure \in Range(WorkTable.cols) /\ r.ok
           THEN Goes(Self, "update_anomaly_graph", "detect_loop",
                     [locals EXCEPT !.k = @ + 1, !.anomalies = @ \o r.frames])
           ELSE Goes(Self, "update_anomaly_graph", "raised", locals)

\* detect_anomalies, line 291, after the last pass: self.reset_working()
DetectCleanup ==
    /\ pc["update_anomaly_graph"] = "detect_loop"
    /\ locals.k > Len(categories(MainTable, dimension))
    /\ Goes(reset_working(Self), "update_anomaly_graph", "detect_assign", locals)

\* detect_anomalies, line 292:
\* self.anomalies_ = pd.concat(anomalies).sort_index()
DetectAssign ==
    /\ pc["update_anomaly_graph"] = "detect_assign"
    /\ IF locals.anomalies = <<>>
       THEN Goes(Self, "update_anomaly_graph", "raised", locals)
       ELSE Goes([Self EXCEPT !.anomalies_ = sort_index(concat(locals.anomalies))],
                 "update_anomaly_graph", "detected", locals)

\* update_anomaly_graph, lines 204-208: the working table and the anomaly
\* table cut to the year; the figure is made and returned after it
GraphFilterYear ==
    /\ pc["update_anomaly_graph"] = "detected"
    /\ IF locals.year = AllYears
       THEN Goes(Self, "update_anomaly_graph", "returned", locals)
       ELSE \E s1 \in {df_setter(Self, FilterYear(locals.year, WorkTable).X)} :
                Goes([s1 EXCEPT !.anomalies_ =
                                   FilterYear(locals.year, anomalies_).X],
                     "update_anomaly_graph", "returned", locals)

-----------------------------------------------------------------------------
Init ==
    /\ input = 1
    /\ main_df = NoRef
    /\ df = NoRef
    /\ \E T \in InputTables : heap = [i \in Ids |-> IF i = 1 THEN T ELSE NoTable]
    /\ measure = None
    /\ dimension = None
    /\ anomalies_ = EmptyFrame
    /\ last = [op |-> "none", arg |-> "", ok |-> TRUE, at |-> "", had |-> FALSE,
              dirty |-> FALSE]
    /\ pc = Idle
    /\ locals = NoLocals

\* the model's own operations
Next ==
    \/ \E m \in MeasureArgs, d \in DimensionArgs : Construct(m, d)
    \/ \E m \in MeasureArgs \ {None} : SetMeasure(m)
    \/ \E d \in DimensionArgs \ {None} : SetDimension(d)
    \/ ResetWorking
    \/ \E method \in Methods, sig_level \in SigLevels, f \in Filters :
          DetectAnomalies(method, sig_level, f)

Spec == Init /\ [][Next]_vars

\* construction, reset, selection and append, with a caller that changes the
\* dataframes it can reach in place
NextCopy ==
    \/ \E m \in MeasureArgs, d \in DimensionArgs : Construct(m, d)
    \/ \E d \in DimensionArgs \ {None} : SetDimension(d)
    \/ ResetWorking
    \/ MutateWorking
    \/ MutateMain
    \/ MutateInput
    \/ \E table \in AppendTables, sort_after \in BOOLEAN : AppendTable(table, sort_after)

SpecCopy == Init /\ [][NextCopy]_vars

\* the model and a caller that applies the transformers by hand
NextPipe ==
    \/ \E m \in MeasureArgs, d \in DimensionArgs : Construct(m, d)
    \/ ResetWorking
    \/ \E step \in Transformers, onResult \in BOOLEAN : ApplyTransformer(step, onResult)

SpecPipe == Init /\ [][NextPipe]_vars

\* calls of the functions of lib/arimatools.py, which use no dataframe and no
\* model: a series and the answers of the libraries are drawn, and a function
\* is called with them
InitArima ==
    /\ input = NoRef
    /\ main_df = NoRef
    /\ df = NoRef
    /\ heap = [i \in Ids |-> NoTable]
    /\ measure = None
    /\ dimension = None
    /\ anomalies_ = EmptyFrame
    /\ \E time_series \in ShortSeries \cup LongSeries, lib \in ArimaLibs :
          /\ time_series \in ShortSeries => lib.q = 0 /\ lib.p = 0
          /\ time_series \in LongSeries =>
                \A o \in 0..MaxIter : lib.adf[o] = "raise" => o = MaxIter
          /\ last = [op |-> "none", arg |-> [time_series |-> time_series, lib |-> lib],
                     ok |-> TRUE, at |-> "", had |-> FALSE, dirty |-> FALSE]
    /\ pc = Idle
    /\ locals = NoLocals

NextArima ==
    \/ CalcD
    \/ CalcParameters

SpecArima == InitArima /\ [][NextArima]_vars

\* the dataset of the dashboard: two categories, two weeks
DashTables ==
    <<RawTable(<<Block(NSW, CAR, 0, 2, 25, 4, 1), Block(VIC, HOME, 0, 2, 30, 3, 0)>>),
     RawTable(<<Block(NSW, CAR, 0, 2, 25, 4, 1), Block(NSW_N, CAR, 1, 1, 30, 3, 0)>>)>>

\* the dashboard when the callbacks start to run.  models.py has made the
\* model `anomaly` from the dataset with the default measure and dimension,
\* run detect_anomalies on it and piped its working table.  The libraries
\* are those of the process: the detector has raised for no category
InitDash ==
    \E i \in DOMAIN DashTables, lib \in {l \in Libs : l.fail = 0 /\ ~l.emptyRaises} :
     \E s0 \in {[input |-> 1, main_df |-> NoRef, df |-> NoRef,
                 heap |-> [id \in Ids |-> IF id = 1 THEN DashTables[i] ELSE NoTable],
                 measure |-> None, dimension |-> None, anomalies_ |-> EmptyFrame]} :
      \E s1 \in {init(s0, "CONVERSION_RATE", "ALL").self} :
       \E r \in {Run(s1.heap[s1.main_df], s1.heap[s1.df], s1.measure, s1.dimension,
                     "stl", SigLevelSeq[1], FilterSeq[1], lib)} :
        \E s2 \in {detect_anomalies(s1, "stl", SigLevelSeq[1], FilterSeq[1], r).self} :
         \E p \in {fit_transform(
                       dimension_pipeline(s2.measure, s2.dimension, "W-MON", <<>>),
                       s2.measure, s2.dimension, s2.heap[s2.df], lib)} :
          \E s \in {df_setter(s2, p.X)} :
           /\ input = s.input
           /\ main_df = s.main_df
           /\ df = s.df
           /\ heap = s.heap
           /\ measure = s.measure
           /\ dimension = s.dimension
           /\ anomalies_ = s.anomalies_
           /\ last = [op |-> "detect_anomalies",
                      arg |-> [method |-> "stl", sig_level |-> SigLevelSeq[1],
                               f |-> FilterSeq[1]],
                      ok |-> TRUE, at |-> "done", had |-> FALSE, dirty |-> FALSE]
           /\ pc = Idle
           /\ locals = [NoLocals EXCEPT !.lib = lib]

\* the callbacks, called with values of the dashboard's inputs
NextDash ==
    \/ \E m \in {"CONVERSION_RATE", "SALES_PROPORTION"}, d \in {"ALL", "STATE"},
          year \in {AllYears, 0}, f \in {FilterSeq[1], FilterSeq[2]} :
          Fire(m, d, year, f)
    \/ HoverReset
    \/ HoverFilter
    \/ HoverPipeline
    \/ GraphReset
    \/ GraphParameters
    \/ GraphFilter
    \/ GraphPipeline
    \/ DetectReset
    \/ DetectFilter
    \/ DetectPipeline
    \/ DetectCategory
    \/ DetectCleanup
    \/ DetectAssign
    \/ GraphFilterYear

SpecDash == InitDash /\ [][NextDash]_vars

-----------------------------------------------------------------------------
(* Properties *)

\* the caller's in-place change of a table: the column it adds is there
HasNewCol(X) == "new_col" \in Range(X.cols)

\* C1: after reset_working() the working table equals the main table and is
\* another object, and a change made to the working table in place leaves
\* the main table as it was.
C1_ResetCopies ==
    [][/\ last'.op = "reset_working" =>
              /\ WorkTable' = MainTable'
              /\ df' # main_df'
       /\ last'.op = "mutate_df" =>
              /\ HasNewCol(WorkTable')
              /\ MainTable' = MainTable]_vars

\* the working table was changed in place and the main table does not show it
C1_Witness ==
    /\ last.op = "mutate_df"
    /\ HasNewCol(WorkTable)
    /\ ~HasNewCol(MainTable)

\* X is T with every missing value replaced by 0, row for row
FilledWithZero(X, T) ==
    /\ X.cols = T.cols
    /\ X.obj = T.obj
    /\ Len(X.rows) = Len(T.rows)
    /\ \A i \in 1..Len(T.rows) :
          /\ X.rows[i].idx = T.rows[i].idx
          /\ X.rows[i].n = T.rows[i].n
          /\ \A col \in Range(T.cols) :
                X.rows[i].c[col] =
                    IF col \notin T.obj /\ T.rows[i].c[col] = NaN
                    THEN 0 ELSE T.rows[i].c[col]

\* C2: a successful construction leaves a main table and a working table that
\* both are the input with missing values filled by 0, as three distinct
\* objects; a change made in place to one of the three leaves the other two
\* as they were.
C2_ConstructCopies ==
    [][/\ last'.op = "init" /\ last'.ok =>
              /\ FilledWithZero(MainTable', InputTable')
              /\ FilledWithZero(WorkTable', InputTable')
              /\ Cardinality({input', main_df', df'}) = 3
       /\ last'.op = "mutate_input" =>
              /\ HasNewCol(InputTable')
              /\ MainTable' = MainTable /\ WorkTable' = WorkTable
       /\ last'.op = "mutate_main_df" =>
              /\ HasNewCol(MainTable')
              /\ InputTable' = InputTable /\ WorkTable' = WorkTable
       /\ last'.op = "mutate_df" =>
              /\ HasNewCol(WorkTable')
              /\ InputTable' = InputTable /\ MainTable' = MainTable]_vars

\* the input held missing values, the model was built from it, and the input
\* was then changed in place: both tables of the model are without the change
C2_Witness ==
    /\ last.op = "mutate_input"
    /\ \E i \in 1..Len(InputTable.rows) :
          InputTable.rows[i].c["SALES_COUNT"] = NaN
    /\ HasNewCol(InputTable)
    /\ ~HasNewCol(MainTable)
    /\ ~HasNewCol(WorkTable)

\* C3: once the model is constructed, no call of set_measure, set_dimension,
\* reset_working or detect_anomalies, completed or failed, changes the main
\* table, and the working table never is the main table's object.
C3_MainTableKept ==
    [][Constructed => main_df' # df' /\ MainTable' = MainTable]_vars

\* a run failed in a detector and left the pipeline's output as the working
\* table; the main table is still the filled input
C3_Witness ==
    /\ last.op = "detect_anomalies"
    /\ last.at = "loop"
    /\ measure \in Range(WorkTable.cols)
    /\ FilledWithZero(MainTable, InputTable)

C5_ExactName ==
    [][\A d \in DimensionArgs \ {None} :
          SetDimension(d) =>
              /\ last'.ok <=> (d \in Range(dimensions(Self)) \/ d = "ALL")
              /\ ~last'.ok => dimension' = dimension]_vars

\* C5, amended: set_dimension(name) succeeds exactly when name.upper() is an
\* object column of the main table or "ALL", and then selects name.upper();
\* a failed call keeps the dimension.
C5_UpperName ==
    [][\A d \in DimensionArgs \ {None} :
          SetDimension(d) =>
              IF Upper(d) \in Range(dimensions(Self)) \/ Upper(d) = "ALL"
              THEN last'.ok /\ dimension' = Upper(d)
              ELSE ~last'.ok /\ dimension' = dimension]_vars

\* "state" was accepted and selected STATE, while the main table has the
\* object column "new_col", which the setter cannot select
C5_Witness ==
    /\ last.op = "set_dimension"
    /\ last.arg = "state"
    /\ last.ok
    /\ dimension = "STATE"
    /\ "new_col" \in MainTable.obj

\* C6: Amodely(df, measure="conversion_rate") succeeds and the measure reads
\* back as "conversion_rate".
C6_LowerCaseMeasure ==
    [][\A d \in {None, "STATE", "ALL"} :
          Construct("conversion_rate", d) =>
              /\ last'.ok
              /\ Constructed'
              /\ measure' = "conversion_rate"]_vars

\* C7: the anomaly table is empty after construction, and a step changes it
\* only if the step is a detect_anomalies call that returned; the setters and
\* reset_working leave it as it was.
C7_OnlyRunsChangeAnomalies ==
    [][/\ last'.op = "init" /\ last'.ok => anomalies_' = EmptyFrame
       /\ anomalies_' # anomalies_ => last'.op = "detect_anomalies" /\ last'.ok
       /\ last'.op \in {"set_measure", "set_dimension", "reset_working"} =>
              anomalies_' = anomalies_]_vars

\* another measure was selected after a run, and the run's rows, which have
\* no column of the new measure, are still the anomaly table
C7_Witness ==
    /\ last.op = "set_measure"
    /\ last.ok
    /\ anomalies_.rows # <<>>
    /\ measure \notin Range(anomalies_.cols)

\* the tables a completed run on table `main` for measure m and dimension dim
\* stores, whatever the model held before
Results(main, m, dim) ==
    UNION {{r.anomalies : r \in {q \in RunsOf(main, main, m, dim, method, sig_level, f) :
                                    q.stage = "done"}} :
           method \in Methods, sig_level \in SigLevels, f \in Filters}

\* C8: after a detect_anomalies call that returned, the anomaly table is the
\* table of that run's rows alone: what the same run stores in a model whose
\* anomaly table was empty.
C8_RunReplacesAnomalies ==
    [][last'.op = "detect_anomalies" /\ last'.ok =>
          anomalies_' \in Results(MainTable', measure', dimension')]_vars

\* a run returned in a model that already held the rows of an earlier run
C8_Witness ==
    /\ last.op = "detect_anomalies"
    /\ last.ok
    /\ last.had
    /\ anomalies_.rows # <<>>

\* C9: a detector that fails for one category does not end the run: no
\* detect_anomalies call raises out of its loop over the categories.
C9_DetectorFailureSkipped ==
    last.op = "detect_anomalies" => last.at # "loop"

\* C10: a run in which no category produced a frame stores an empty anomaly
\* table: no detect_anomalies call raises when it concatenates the frames.
C10_NoFramesStoresEmpty ==
    last.op = "detect_anomalies" => last.at # "concat"

\* the number of raw rows of X whose cell in column dim is cat
RawCount(X, dim, cat) ==
    NRows(Table(X.cols, X.obj, SelectSeq(X.rows, LAMBDA r : r.c[dim] = cat)))

\* the categories of column dim with fewer raw rows than the floor
FewRowCats(X, dim) ==
    {cat \in {X.rows[i].c[dim] : i \in 1..Len(X.rows)} :
        RawCount(X, dim, cat) < BadCategoryFloor}

\* X has a row of category cat in column dim
HasCategory(X, dim, cat) ==
    \E i \in 1..Len(X.rows) :
        dim \in DOMAIN X.rows[i].c /\ X.rows[i].c[dim] = cat

\* the main table after the pre-filter f of a run
PreFiltered(main, f) ==
    IF f.dimension = "" THEN main
    ELSE FilterCategory(f.dimension, f.categories, FALSE, main).X

\* C11: for a dimension other than "ALL", a category with fewer than 100 raw
\* rows in the main table has no row in the piped working table and none in
\* the anomaly table of the run; for "ALL" the piped table sums the counts of
\* all rows, those of such categories included.
C11_FewRowCategoriesAbsent ==
    last.op = "detect_anomalies" =>
        IF dimension = "ALL"
        THEN last.at = "loop" =>
                 \A col \in Range(STRUCTURE[measure]) :
                     SumCol(WorkTable.rows, col) =
                         SumCol(PreFiltered(MainTable, last.arg.f).rows, col)
        ELSE \A cat \in FewRowCats(MainTable, dimension) :
                 /\ last.at = "loop" => ~HasCategory(WorkTable, dimension, cat)
                 /\ last.at = "done" => ~HasCategory(anomalies_, dimension, cat)

\* C12: append with a table whose set of columns is not the main table's
\* leaves the main table as it was and returns normally, and no append makes
\* the main table shorter.
C12_AppendMismatchKeepsMain ==
    [][last'.op = "append" =>
          /\ last'.ok
          /\ Range(last'.arg.table.cols) # Range(MainTable.cols) =>
                 MainTable' = MainTable
          /\ Len(MainTable'.rows) >= Len(MainTable.rows)
          /\ NRows(MainTable') >= NRows(MainTable)]_vars

\* an append of a table with one column more was made on a main table that
\* an earlier append had extended
C12_Witness ==
    /\ last.op = "append"
    /\ "REGION" \in Range(last.arg.table.cols)
    /\ "REGION" \notin Range(MainTable.cols)
    /\ Len(MainTable.rows) > Len(InputTable.rows)

\* the runs that can have stored the anomaly table of the call last made
DoneRuns ==
    {r \in RunsOf(MainTable, MainTable, measure, dimension, last.arg.method,
                  last.arg.sig_level, last.arg.f) : r.stage = "done"}

\* row a holds the cells of row p
Agrees(a, p) == \A col \in DOMAIN p.c : col \in DOMAIN a.c /\ a.c[col] = p.c[col]

\* the row's score is at or beyond the bounds of the significance level
Triggered(a, sig_level) ==
    \/ a.c["STANDARD_DEVIATIONS"] <= norm_ppf_lower(sig_level)
    \/ a.c["STANDARD_DEVIATIONS"] >= 0 - norm_ppf_lower(sig_level)

C14_FlagIffBeyondBounds ==
    last.op = "detect_anomalies" /\ last.at = "done" /\ last.arg.method = "stl" =>
        \A i \in 1..Len(anomalies_.rows) :
            LET a == anomalies_.rows[i]
                sd == a.c["STANDARD_DEVIATIONS"]
                lower == norm_ppf_lower(last.arg.sig_level)
                upper == 0 - lower
            IN  /\ a.c["ANOMALY"] <=> (sd <= lower \/ sd >= upper)
                /\ (lower < sd /\ sd < upper) => ~a.c["ANOMALY"]

\* an stl run stored rows whose residuals are both bounds, flagged, and a row
\* just inside a bound, not flagged
C14_Witness ==
    /\ last.op = "detect_anomalies"
    /\ last.at = "done"
    /\ last.arg.method = "stl"
    /\ \E i, j, k \in 1..Len(anomalies_.rows) :
          LET lower == norm_ppf_lower(last.arg.sig_level)
          IN  /\ anomalies_.rows[i].c["STANDARD_DEVIATIONS"] = lower
              /\ anomalies_.rows[i].c["ANOMALY"]
              /\ anomalies_.rows[j].c["STANDARD_DEVIATIONS"] = 0 - lower
              /\ anomalies_.rows[j].c["ANOMALY"]
              /\ anomalies_.rows[k].c["STANDARD_DEVIATIONS"] = lower + 1
              /\ ~anomalies_.rows[k].c["ANOMALY"]

\* the lists of categories FilterCategory is tried with
CategoryLists ==
    {<<>>, <<NSW>>, <<NSW_N>>, <<SA_M>>, <<UNKNOWN, VIC>>, <<CAR>>, <<HOME, CAR>>}

\* the number of rows of X with the cells and the multiplicity of row r
Copies(X, r) ==
    Cardinality({i \in 1..Len(X.rows) : X.rows[i].c = r.c /\ X.rows[i].n = r.n})

\* the rows of `kept` and the rows of `removed` together are the rows of X,
\* each as often as in X
Partition(X, kept, removed) ==
    /\ Len(kept.rows) + Len(removed.rows) = Len(X.rows)
    /\ \A i \in 1..Len(X.rows) :
          Copies(kept, X.rows[i]) + Copies(removed, X.rows[i]) = Copies(X, X.rows[i])

\* C15: for the working table, each of its object columns and each list of
\* categories, FilterCategory with remove=False and with remove=True split
\* the rows: every row is in exactly one of the two results.
C15_FilterCategoryPartitions ==
    Constructed =>
        \A dim \in WorkTable.obj, category \in CategoryLists :
            LET kept == FilterCategory(dim, category, FALSE, WorkTable)
                removed == FilterCategory(dim, category, TRUE, WorkTable)
            IN  /\ kept.ok
                /\ removed.ok
                /\ Partition(WorkTable, kept.X, removed.X)

\* the working table is a piped table, and a list of one name splits it in
\* two parts that both have rows
C15_Witness ==
    /\ last.op = "detect_anomalies"
    /\ last.at = "loop"
    /\ dimension = "STATE"
    /\ FilterCategory(dimension, <<NSW_N>>, FALSE, WorkTable).X.rows # <<>>
    /\ FilterCategory(dimension, <<NSW_N>>, TRUE, WorkTable).X.rows # <<>>

\* C16: the table a detect_anomalies call stores is a table the run with
\* these arguments computes from the main table, the measure and the
\* dimension alone, whatever the working table held when the call was made.
C16_RunIgnoresWorkingTable ==
    [][last'.op = "detect_anomalies" /\ last'.ok =>
          anomalies_' \in
              {r.anomalies :
                  r \in {q \in RunsOf(MainTable, MainTable, measure, dimension,
                                      last'.arg.method, last'.arg.sig_level,
                                      last'.arg.f) : q.stage = "done"}}]_vars

\* a run returned that was started while the working table was not the main
\* table's copy
C16_Witness ==
    /\ last.op = "detect_anomalies"
    /\ last.ok
    /\ last.dirty
    /\ anomalies_.rows # <<>>

\* C17: the list of dimensions is the list of the main table's object
\* columns: a column added to the working table does not change it, a column
\* added to the main table is in it.
C17_DimensionsFromMain ==
    [][Constructed' =>
          /\ Range(dimensions(Self')) = MainTable'.obj
          /\ last'.op = "mutate_df" => dimensions(Self') = dimensions(Self)
          /\ last'.op = "mutate_main_df" => "new_col" \in Range(dimensions(Self'))]_vars

\* a column was added to the working table only, and it is no dimension
C17_Witness ==
    /\ last.op = "mutate_df"
    /\ "new_col" \in WorkTable.obj
    /\ "new_col" \notin MainTable.obj
    /\ "new_col" \notin Range(dimensions(Self))

\* X has no missing value
Filled(X) ==
    \A i \in 1..Len(X.rows) :
        \A col \in Range(X.cols) \ (X.obj \cup {DATE}) : X.rows[i].c[col] # NaN

\* the places of the step called `name` in a pipeline
Places(pipe, name) == {i \in 1..Len(pipe) : pipe[i].name = name}

\* every step called a comes before every step called b, and there is
\* exactly one of each
Before(pipe, a, b) ==
    /\ Cardinality(Places(pipe, a)) = 1
    /\ Cardinality(Places(pipe, b)) = 1
    /\ \A i \in Places(pipe, a), j \in Places(pipe, b) : i < j

PipedTables ==
    {r.piped : r \in {q \in RunsOf(MainTable, MainTable, measure, dimension,
                                   last.arg.method, last.arg.sig_level,
                                   last.arg.f) :
                          q.stage \notin {"filter", "pipeline"}}}

\* a float that is a number of [0, inf): not NaN, not inf
NonNegativeNumber(v) == v[2] > 0 /\ v[1] >= 0

\* C19: in every row of the piped working table of a run on CONVERSION_RATE
\* the measure is the bucket's summed sales over its summed quotes and is a
\* number of [0, inf), buckets whose summed quotes are 0 included.
C19_RateIsNumber ==
    (last.op = "detect_anomalies" /\ measure = "CONVERSION_RATE") =>
        \A X \in PipedTables : \A i \in 1..Len(X.rows) :
            LET row == X.rows[i].c
            IN  /\ row["CONVERSION_RATE"] = Ratio(row["SALES_COUNT"], row["QUOTE_COUNT"])
                /\ NonNegativeNumber(row["CONVERSION_RATE"])

\* the float a + b
AddRatio(a, b) ==
    CASE a = <<0, 0>> \/ b = <<0, 0>> -> <<0, 0>>
      [] a[2] = 0 \/ b[2] = 0         -> <<1, 0>>
      [] OTHER -> Ratio(a[1] * b[2] + b[1] * a[2], a[2] * b[2])

\* the sum of the floats of column col over the rows s
RECURSIVE SumRatios(_, _)
SumRatios(s, col) ==
    IF s = <<>> THEN <<0, 1>> ELSE AddRatio(Head(s).c[col], SumRatios(Tail(s), col))

\* the rows of X on the date of its row i
SameDate(X, i) == SelectSeq(X.rows, LAMBDA r : r.c[DATE] = X.rows[i].c[DATE])

\* C20: in the piped working table of a run on SALES_PROPORTION each row's
\* measure is its category's summed sales over the summed sales of all the
\* categories left on its date, the measures of a date sum to 1, and with
\* "ALL" every measure is 1.
C20_ProportionsSumToOne ==
    (last.op = "detect_anomalies" /\ measure = "SALES_PROPORTION") =>
        \A X \in PipedTables : \A i \in 1..Len(X.rows) :
            LET row == X.rows[i].c
            IN  IF dimension = "ALL"
                THEN row["SALES_PROPORTION"] = <<1, 1>>
                ELSE /\ row["SALES_PROPORTION"] =
                            Ratio(row["SALES_COUNT"], SumCol(SameDate(X, i), "SALES_COUNT"))
                     /\ SumRatios(SameDate(X, i), "SALES_PROPORTION") = <<1, 1>>

\* C21: when a run returns, the working table is a copy of the main table
\* again, not the piped table; the reset comes before the anomaly table is
\* assigned, so it has also happened when building the anomaly table raises.
C21_ReturnsWithWorkingReset ==
    /\ (last.op = "detect_anomalies" /\ last.ok) => last.at = "done"
    /\ (last.op = "detect_anomalies" /\ last.at \in {"concat", "done"}) =>
          /\ WorkTable = MainTable
          /\ df # main_df

\* a run returned whose piped table differs from the main table
C21_Witness ==
    /\ last.op = "detect_anomalies"
    /\ last.ok
    /\ anomalies_.rows # <<>>
    /\ \A X \in PipedTables : X # MainTable

\* the rows of X are in non-decreasing date order
DateOrdered(X) ==
    \A i \in 1..(Len(X.rows) - 1) : X.rows[i].c[DATE] <= X.rows[i + 1].c[DATE]

\* the place in table P of the row for the date and category of row a
PlaceIn(P, a, dim) ==
    CHOOSE k \in 1..Len(P.rows) :
        /\ P.rows[k].c[DATE] = a.c[DATE]
        /\ DimOf(P.rows[k], dim) = DimOf(a, dim)

\* the rows of X come in the order their rows have in P
OrderedAs(X, P, dim) ==
    \A i \in 1..(Len(X.rows) - 1) :
        PlaceIn(P, X.rows[i], dim) <= PlaceIn(P, X.rows[i + 1], dim)

\* C22: the anomaly table a run stores lists its rows in the row order of
\* the piped working table, which is non-decreasing date order, with either
\* method and whatever the weeks the series of the categories start on.
C22_AnomaliesInPipedOrder ==
    (last.op = "detect_anomalies" /\ last.ok) =>
        /\ DateOrdered(anomalies_)
        /\ \A P \in PipedTables : OrderedAs(anomalies_, P, dimension)

\* the detector calls of the last run, for each answer of the libraries
Invocations ==
    {Invoked(P, last.arg.method, last.arg.sig_level, dimension,
             categories(MainTable, dimension), 1, lib) :
        P \in PipedTables, lib \in Libs}

\* the detector calls are made in ascending alphabetical order of the
\* categories, one call for a category
Ascending(calls) ==
    \A i \in 1..Len(calls), j \in 1..Len(calls) :
        i < j => StrLess(calls[i].category, calls[j].category)

\* the categories the pipeline of the last run excludes
Excluded ==
    Range(bad_categories(MainTable, PreFiltered(MainTable, last.arg.f), dimension))
        \cup {cat \in Range(categories(MainTable, dimension)) : Contains(cat, UNKNOWN)}

\* C23: a run calls the detector once for a category, in ascending
\* alphabetical order, and never for an excluded (bad or "Unknown") category
\* nor for one without rows in the piped working table.
C23_DetectorOnlyForKeptCategories ==
    (last.op = "detect_anomalies" /\ last.at \in {"loop", "concat", "done"}) =>
        \A calls \in Invocations :
            /\ Ascending(calls)
            /\ dimension # "ALL" =>
                  \A i \in 1..Len(calls) :
                      /\ calls[i].category \notin Excluded
                      /\ \A P \in PipedTables :
                            HasCategory(P, dimension, calls[i].category)

\* C24: a transformer leaves the table it is given as it was and returns its
\* result as another table, one that is none of the tables of the model or
\* of the caller.
C24_TransformersArePure ==
    [][last'.op = "fit_transform" =>
          /\ heap'[last'.arg.X] = heap[last'.arg.X]
          /\ last'.ok => last'.arg.out \notin {last'.arg.X, input', main_df', df'}]_vars

\* the orders 0..MaxIter whose differenced series passes the test
Passing(lib) == {o \in 0..MaxIter : lib.adf[o] = "pass"}

\* C25: calc_d returns the order, among 0..iter, of the differenced series
\* with the smallest standard deviation among those that pass the
\* stationarity test, and 0 when none passes.
C25_SmallestDeviationOrder ==
    (last.op = "calc_d" /\ last.ok) =>
        LET s == last.arg.time_series
            pass == Passing(last.arg.lib)
            Std(o) == Variance(Differenced(s, o))
        IN  IF pass = {} THEN last.arg.out = 0
            ELSE /\ last.arg.out \in pass
                 /\ \A o \in pass : VarianceLeq(Std(last.arg.out), Std(o))

\* C26: calc_parameters ends after at most one turn of its loop for every 5
\* lags, and what it returns has q < 10: with d0 and q0 the orders computed
\* before the loop, it returns them and p unchanged when q0 < 10, and
\* otherwise d0 + k and q0 - 5k for the least k with q0 - 5k < 10, with p
\* computed on the series differenced d0 + k times.
C26_ParametersReduced ==
    last.op = "calc_parameters" =>
        LET s  == last.arg.time_series
            d0 == calc_d(s, MaxIter, last.arg.lib).d
            q0 == calc_q(Differenced(s, d0), last.arg.lib).q
            p0 == calc_p(Differenced(s, d0), last.arg.lib).p
            k  == CHOOSE n \in 0..q0 :
                      /\ q0 - 5 * n < 10
                      /\ \A j \in 0..(n - 1) : q0 - 5 * j >= 10
        IN  /\ 5 * last.arg.turns <= MaxLags
            /\ last.ok =>
                  /\ last.arg.out[3] < 10
                  /\ last.arg.turns = k
                  /\ last.arg.out[2] = d0 + k
                  /\ last.arg.out[3] = q0 - 5 * k
                  /\ last.arg.out[1] =
                        calc_p(Differenced(s, d0 + k), last.arg.lib).p
                  /\ q0 < 10 => last.arg.out = <<p0, d0, q0>>

\* a call returned after two turns of the loop, with another p than before
C26_Witness ==
    /\ last.op = "calc_parameters"
    /\ last.ok
    /\ last.arg.turns = 2
    /\ last.arg.out[1] #
          calc_p(Differenced(last.arg.time_series, last.arg.out[2] - 2),
                 last.arg.lib).p

\* frame F holds exactly the rows of series X that are among its last `steps`
\* rows and lie outside the forecast interval for their position, for the
\* k-th category
TestRowsOutside(X, F, lib, k) ==
    LET n == Len(X.rows)
    IN  /\ n > steps
        /\ \A j \in 1..n :
              (\E i \in 1..Len(F.rows) : F.rows[i] = X.rows[j])
                  <=> (j > n - steps /\ Outside(lib, k, j - (n - steps) - 1))
        /\ \A i \in 1..Len(F.rows) : \E j \in 1..n : F.rows[i] = X.rows[j]

\* the significance levels a caller may give
OtherSigLevels == {1, 10}

RowsOf(P, dim, cat) == SelectSeq(P.rows, LAMBDA r : r.c[dim] = cat)

\* no two rows of X are for the same date and the same category
OncePerDateAndCategory(X, dim) ==
    \A i \in 1..Len(X.rows), j \in 1..Len(X.rows) :
        (i # j) => \/ X.rows[i].c[DATE] # X.rows[j].c[DATE]
                   \/ X.rows[i].c[dim] # X.rows[j].c[dim]

\* C28: the series a run extracts for a category holds exactly the rows of
\* the piped table whose dimension value equals the category, whatever the
\* names; so the anomaly table of an stl run has a (date, category) at most
\* once, and the removal of the excluded categories leaves the rows of the
\* other categories in the piped table.
C28_SeriesOfOneCategory ==
    (/\ last.op = "detect_anomalies"
     /\ last.at \in {"loop", "concat", "done"}
     /\ dimension # "ALL") =>
        /\ \A calls \in Invocations, P \in PipedTables :
              \A i \in 1..Len(calls) :
                  calls[i].series.rows = RowsOf(P, dimension, calls[i].category)
        /\ (last.ok /\ last.arg.method = "stl") =>
              OncePerDateAndCategory(anomalies_, dimension)
        /\ \A P \in PipedTables :
              \A cat \in Range(categories(MainTable, dimension)) \ Excluded :
                  HasCategory(PreFiltered(MainTable, last.arg.f), dimension, cat)
                      => HasCategory(P, dimension, cat)

Alone ==
    Run(MainTable, MainTable, measure, dimension, "stl", SigLevelSeq[1],
        [dimension |-> IF locals.f.categories # <<>> THEN locals.f.dimension ELSE "",
         categories |-> locals.f.categories], locals.lib)

\* C30: when update_hover and update_anomaly_graph interleave on the shared
\* model, the anomaly table that the detect_anomalies run of
\* update_anomaly_graph assigns is the one computed from the working table
\* which that run reset and piped itself.
C30_RunUsesItsOwnWorkingTable ==
    pc["update_anomaly_graph"] = "detected" =>
        /\ Alone.stage = "done"
        /\ anomalies_ = Alone.anomalies

====
